---- MODULE Spec2Model ----
(***************************************************************************)
(* A model of gcam-driver/src/C/mat2nc.c: the driver (main), the four      *)
(* readers (read_and_aggregate_data, read_5yr_data, read_pop_data,         *)
(* read_table_data), read_file_name and the archive writer (mat2nc).       *)
(*                                                                         *)
(* Numbers.  A C float is modelled as a fixed-point integer in units of    *)
(* 1/Scale (Scale = 10^5, the precision of the conversion factor           *)
(* 3.156e-2/12 = 0.00263).  Input files hold whole numbers, for which the  *)
(* arithmetic of the readers is exact in this representation; binary       *)
(* rounding of floats is not modelled.  The not-a-number marker is the     *)
(* value NAN, which no computation of the model produces.                  *)
(*                                                                         *)
(* Sizes.  The grid (NLAT x NLON), the entity counts (NRGN, NBASIN) and    *)
(* the line buffer (BUFLEN) are scaled down; the time axis (NYEAR), the    *)
(* years 2001..2095 and the twelve months keep the values of the source.   *)
(***************************************************************************)
EXTENDS Integers, Sequences, FiniteSets, TLC

\* ------------------------------------------------------------ sizes
\* scaled-down sizes of the source's NLAT 360, NLON 720, NRGN 63, NBASIN 235
NLAT == 2
NLON == 3
NRGN == 2
NBASIN == 3
\* sizes kept from the source
NYEAR == 18
NGRIDI == 8
NBASINI == 8
NRGNI == 8
NMONTH == 12
FirstYear == 2001
LastYear == 2095
BaseYear == 2010
YearStep == 5

NCELL == NLAT * NLON

Lats == 0 .. (NLAT - 1)
Lons == 0 .. (NLON - 1)
Steps == 0 .. (NYEAR - 1)
Cells == 0 .. (NCELL - 1)

\* enum filenum
OUTPUT == 0
G_SUPPLY == 1
G_IRR == 2
G_WSI == 8
POP == 9
B_SUPPLY == 10
B_WSI == 17
R_SUPPLY == 18
R_WSI == 25

Min(a, b) == IF a < b THEN a ELSE b

\* ------------------------------------------------------------ floats
Scale == 10 * 10 * 10 * 10 * 10
NAN == 0 - 2000000000

\* the product of two fixed-point numbers (truncated to 1/Scale)
FMul(a, b) == (a \div Scale) * b + ((a % Scale) * b) \div Scale

\* fac = 3.156e-2 / 12.0
FacNumerator == 3156
\* (the division by the 12 months left out)
FacNoMonths == FacNumerator
Fac == FacNumerator \div NMONTH

\* ------------------------------------------------------------ the file system
\* A binary file is a length (in floats) and the seed of its values; every
\* value is a whole number.  Whole(seed, p) is the whole number at 0-based
\* position p: all zeros for seed 0, otherwise a sequence that differs from
\* seed to seed and from position to position.
Whole(seed, p) == IF seed = 0 THEN 0 ELSE ((seed * p) % 97) + seed

BinVal(seed, p) == Whole(seed, p) * Scale

MonthlyLen == (LastYear - FirstYear + 1) * NMONTH * NCELL

Absent == [exists |-> FALSE, len |-> 0, seed |-> 0, kind |-> "none"]
Bin(n, g) == [exists |-> TRUE, len |-> n, seed |-> g, kind |-> "bin"]

NoDataName == "no-data"

\* ------------------------------------------------------------ text files
\* The population file is a sequence of lexical items, each standing for one
\* character of the stream: a number (its value in tenths), a comma, a blank,
\* a newline, or text that is no number.
BUFLEN == 64

Num(v) == [t |-> "num", v |-> v]
Comma == [t |-> "comma", v |-> 0]
Blank == [t |-> "sp", v |-> 0]
Newline == [t |-> "nl", v |-> 0]
Junk == [t |-> "junk", v |-> 0]

\* the value (in tenths) written in field f (1-based) of line r (0-based):
\* positive and negative values, with fractions .0, .4, .5 and .6
FieldTenths(r, f) ==
    LET whole == 10 * (25 * r + f)
        frac  == CASE f % 4 = 0 -> 0 [] f % 4 = 1 -> 4 [] f % 4 = 2 -> 5 [] OTHER -> 6
    IN  IF (r + f) % 3 = 0 THEN 0 - (whole + frac) ELSE whole + frac

\* n comma-separated numeric fields of line r; field junkAt (if any) is no
\* number; with blanks, every comma is followed by a blank
FieldSeq(r, n, junkAt, blanks) ==
    LET item(k) == IF k = junkAt THEN Junk ELSE Num(FieldTenths(r, k))
    IN  IF blanks
        THEN [k \in 1 .. (3 * n - 2) |->
                CASE k % 3 = 1 -> item((k + 2) \div 3)
                  [] k % 3 = 2 -> Comma
                  [] OTHER     -> Blank]
        ELSE [k \in 1 .. (2 * n - 1) |->
                IF k % 2 = 1 THEN item((k + 1) \div 2) ELSE Comma]

NFIELD == NYEAR + 2

RECURSIVE TextLines(_, _, _)
\* lines from..(count-1) of a file of the given kind
TextLines(kind, from, count) ==
    IF from >= count THEN << >>
    ELSE LET line ==
               CASE kind = "extra" -> FieldSeq(from, NFIELD + 2, 0, FALSE) \o <<Newline>>
                 [] kind = "space" -> FieldSeq(from, NFIELD, 0, TRUE) \o <<Newline>>
                 [] kind = "seventeen" /\ from = 0 ->
                        FieldSeq(from, NFIELD - 1, 0, FALSE) \o <<Newline>>
                 [] kind = "seventeenlast" /\ from = NRGN - 1 ->
                        FieldSeq(from, NFIELD - 1, 0, FALSE)
                 [] kind = "trailcomma" /\ from = 0 ->
                        FieldSeq(from, NFIELD - 1, 0, FALSE) \o <<Comma, Newline>>
                 [] kind = "junk" /\ from = NRGN - 1 ->
                        FieldSeq(from, NFIELD, 8, FALSE) \o <<Newline>>
                 [] kind = "long" /\ from = 0 ->
                        FieldSeq(from, NFIELD + BUFLEN, 0, FALSE) \o <<Newline>>
                 [] OTHER -> FieldSeq(from, NFIELD, 0, FALSE) \o <<Newline>>
         IN  line \o TextLines(kind, from + 1, count)

\* the items of a text file of the given kind
Text(kind) ==
    CASE kind = "empty"      -> << >>
      [] kind = "fewlines"   -> TextLines(kind, 0, NRGN - 1)
      [] kind = "trailcomma" -> TextLines(kind, 0, NRGN + 1)
      [] OTHER               -> TextLines(kind, 0, NRGN)

Txt(kind) == [exists |-> TRUE, len |-> Len(Text(kind)), seed |-> 0, kind |-> kind]

\* the input files of a nominal run, in the order of enum filenum (1..25)
NominalNames ==
    <<"supply.dat", "irr.dat", "liv.dat", "elec.dat", "mfg.dat", "total.dat", "dom.dat",
      "wsi.dat", "pop.csv",
      "b_supply.dat", "b_irr.dat", "b_liv.dat", "b_elec.dat", "b_mfg.dat", "b_total.dat",
      "b_dom.dat", "b_wsi.dat",
      "r_supply.dat", "r_irr.dat", "r_liv.dat", "r_elec.dat", "r_mfg.dat", "r_total.dat",
      "r_dom.dat", "r_wsi.dat">>

IsNominal(name) == \E k \in DOMAIN NominalNames : NominalNames[k] = name
IndexOf(name) == CHOOSE k \in DOMAIN NominalNames : NominalNames[k] = name

\* nominal file k is complete and its values are its own (seed k + 1)
NominalFile(k) ==
    CASE k = G_SUPPLY             -> Bin(MonthlyLen, k + 1)
      [] k > G_SUPPLY /\ k < G_WSI -> Bin((NYEAR + 2) * NCELL, k + 1)
      [] k = G_WSI                -> Bin((NYEAR + 1) * NCELL, k + 1)
      [] k = POP                  -> Txt("good")
      [] k >= B_SUPPLY /\ k <= B_WSI -> Bin((NYEAR + 1) * NBASIN, k + 1)
      [] OTHER                    -> Bin((NYEAR + 1) * NRGN, k + 1)

\* what fopen(name) may find: the files of the modelled directory.  Whether a
\* file called "no-data" exists is left open.
FS(name) ==
    CASE IsNominal(name)             -> {NominalFile(IndexOf(name))}
      [] name = "monthly.dat"        -> {Bin(MonthlyLen, 1)}
      [] name = "monthly_alt.dat"    -> {Bin(MonthlyLen, 7)}
      [] name = "monthly_zero.dat"   -> {Bin(MonthlyLen, 0)}
      [] name = "monthly_long.dat"   -> {Bin(MonthlyLen + NCELL + 1, 1)}
      [] name = "monthly_short.dat"  -> {Bin(MonthlyLen - 1, 1)}
      [] name = "monthly_cut.dat"    -> {Bin(11 * NMONTH * NCELL + 5, 7)}
      [] name = "grid5_21.dat"       -> {Bin(21 * NCELL, 1)}
      [] name = "grid5_20.dat"       -> {Bin(20 * NCELL, 1)}
      [] name = "grid5_20alt.dat"    -> {Bin(20 * NCELL, 7)}
      [] name = "grid5_19.dat"       -> {Bin(19 * NCELL, 7)}
      [] name = "grid5_19cut.dat"    -> {Bin(20 * NCELL - 1, 1)}
      [] name = "grid5_18.dat"       -> {Bin(18 * NCELL, 1)}
      [] name = "grid5_18cut.dat"    -> {Bin(19 * NCELL - 1, 7)}
      [] name = "basin.dat"          -> {Bin((NYEAR + 1) * NBASIN, 1)}
      [] name = "basin_alt.dat"      -> {Bin((NYEAR + 1) * NBASIN + 4, 7)}
      [] name = "basin_short.dat"    -> {Bin((NYEAR + 1) * NBASIN - 1, 1)}
      [] name = "region.dat"         -> {Bin((NYEAR + 1) * NRGN, 1)}
      [] name = "region_alt.dat"     -> {Bin((NYEAR + 1) * NRGN + 4, 7)}
      [] name = "region_short.dat"   -> {Bin((NYEAR + 1) * NRGN - 1, 7)}
      [] name = "empty.dat"          -> {Bin(0, 0)}
      [] name = "pop.csv"            -> {Txt("good")}
      [] name = "pop_extra.csv"      -> {Txt("extra")}
      [] name = "pop_space.csv"      -> {Txt("space")}
      [] name = "pop_17.csv"         -> {Txt("seventeen")}
      [] name = "pop_17last.csv"     -> {Txt("seventeenlast")}
      [] name = "pop_trail.csv"      -> {Txt("trailcomma")}
      [] name = "pop_junk.csv"       -> {Txt("junk")}
      [] name = "pop_long.csv"       -> {Txt("long")}
      [] name = "pop_few.csv"        -> {Txt("fewlines")}
      [] name = "empty.csv"          -> {Txt("empty")}
      [] name = NoDataName           -> {Absent, Bin((NYEAR + 1) * NBASIN, 7)}
      [] OTHER                       -> {Absent}

\* ------------------------------------------------------------ state
VARIABLES
    pc,           \* the statement the program is at
    exitStatus,   \* the status the process ended with (-1 while it runs)
    i,            \* main: the loop index (a filenum)
    nskipyr,      \* main: nskipyr, passed to read_5yr_data
    stat,         \* main: the status last returned by a callee
    cfgread,      \* the number of items consumed from the configuration stream
    outfilename,  \* main: the output path
    filename,     \* main: the last input path read from the configuration
    deviated,     \* the environment has left the nominal run once
    data,         \* main: data[NGRIDI][NYEAR][NLAT][NLON]
    popdata,      \* main: popdata[NYEAR][NRGN]
    bdata,        \* main: bdata[NBASINI][NYEAR][NBASIN]
    rdata,        \* main: rdata[NRGNI][NYEAR][NRGN]
    fn,           \* the reader called last
    tarray,       \* the array the reader fills: "data", "popdata", "bdata", "rdata"
    target,       \* the index of the slice of that array the reader fills
    nrow,         \* read_table_data: nrow
    retpc,        \* where the running reader returns to
    datafile,     \* the FILE the running reader holds
    openData,     \* the names of the data files that are open
    diag,         \* the last diagnostic written to stderr
    year,         \* read_and_aggregate_data: year
    readdata,     \* read_and_aggregate_data: static readdata[12][NLON*NLAT]
    transdata,    \* read_and_aggregate_data: static transdata[NLON*NLAT]
    readdata5,    \* read_5yr_data: static readdata[NYEAR][NLON*NLAT]
    rgn,          \* read_pop_data: rgn
    iyear,        \* read_pop_data: iyear
    tmp,          \* read_pop_data: tmp (in tenths)
    ncstep,       \* mat2nc: the number of archive-library calls made
    archive,      \* the output archive
    calls,        \* history: the calls of main, in order, each with its result
    reads,        \* history: the freads of read_and_aggregate_data (year, position)
    writers,      \* history: per time-step, the years whose block was stored in it
    requests,     \* history: the fread requests made (function, buffer, items)
    failures      \* history: the failures that have occurred

mainVars == <<i, nskipyr, cfgread, outfilename, filename, exitStatus, deviated>>
arrayVars == <<data, popdata, bdata, rdata>>
callVars == <<fn, tarray, target, nrow, retpc>>
ioVars == <<datafile, openData, diag>>
raVars == <<year, readdata, transdata, reads, writers>>
histVars == <<calls, requests>>
rpVars == <<rgn, iyear, tmp>>
ncVars == <<ncstep, archive>>
vars == <<pc, stat, mainVars, arrayVars, callVars, ioVars, raVars, readdata5,
          rpVars, ncVars, histVars, failures>>

NoFile == [name |-> "", len |-> 0, seed |-> 0, kind |-> "none", pos |-> 0]
Handle(name, f) == [name |-> name, len |-> f.len, seed |-> f.seed, kind |-> f.kind, pos |-> 0]
NoDiag == [kind |-> "none", file |-> "", a |-> 0, b |-> 0]
Diag(k, f, x, y) == [kind |-> k, file |-> f, a |-> x, b |-> y]

\* a grid, a table: constant fills
GridOf(v) == [t \in Steps |-> [la \in Lats |-> [lo \in Lons |-> v]]]
TableOf(n, v) == [t \in Steps |-> [e \in 0 .. (n - 1) |-> v]]
BufferOf(n, v) == [k \in 0 .. (n - 1) |-> v]

\* ------------------------------------------------------------ stdio
\* fread(buf, sizeof(float), n, fh): the number of items read, the buffer and
\* the stream position afterwards
Avail(fh) == IF fh.len > fh.pos THEN fh.len - fh.pos ELSE 0
FreadCount(fh, n) == Min(n, Avail(fh))
FreadInto(buf, fh, n) ==
    [k \in DOMAIN buf |-> IF k < FreadCount(fh, n) THEN BinVal(fh.seed, fh.pos + k) ELSE buf[k]]
Advance(fh, n) == [fh EXCEPT !.pos = @ + FreadCount(fh, n)]

\* a call of main: function f on file number k with path name; ret is the
\* status returned (-1 while the call runs)
Call(f, k, name) == [f |-> f, i |-> k, name |-> name, ret |-> 0 - 1]

\* return v from the running reader
Return(v) ==
    /\ stat' = v
    /\ pc' = retpc
    /\ calls' = [calls EXCEPT ![Len(calls)].ret = v]
    /\ failures' = IF v = 0 THEN failures ELSE failures \cup {fn}

\* (the sentinel taken to be the empty name)
IsNoDataEmpty(name) == name = ""
\* strcmp(filename, "no-data") == 0
IsNoData(name) == name = NoDataName

\* ------------------------------------------------------------ read_and_aggregate_data
\* (2010 itself dropped)
SkipYearLate(y) == y <= BaseYear \/ y % YearStep # 0
\* year < 2010 || year % 5 != 0
SkipYear(y) == y < BaseYear \/ y % YearStep # 0
\* iyear = (year - 2010) / 5
YearIndex(y) == (y - BaseYear) \div YearStep
\* (the record taken to be laid out [latitude][longitude])
FileOffsetRowMajor(ilat, ilon) == NLON * ilat + ilon
\* the offset of cell [ilat][ilon] in a record of the file: NLAT*ilon + ilat
FileOffset(ilat, ilon) == NLAT * ilon + ilat

RECURSIVE SumMonths(_, _, _)
\* readdata[0][c] + ... + readdata[m-1][c]
SumMonths(rd, c, m) ==
    IF m = 0 THEN 0 ELSE SumMonths(rd, c, m - 1) + rd[(m - 1) * NCELL + c]

\* (transdata not cleared before the months are added)
AggregateNoMemset(td, rd) == [c \in Cells |-> td[c] + SumMonths(rd, c, NMONTH)]
\* memset(transdata, 0, ...), then transdata[c] += readdata[imonth][c] for the 12 months
Aggregate(td, rd) == [c \in Cells |-> 0 + SumMonths(rd, c, NMONTH)]

\* data[iyear][ilat][ilon] = transdata[NLAT*ilon + ilat] * fac
Transposed(td, f) == [la \in Lats |-> [lo \in Lons |-> FMul(td[FileOffset(la, lo)], f)]]

RA_NoData ==
    /\ pc = "ra_entry"
    /\ IsNoData(filename)
    /\ data' = [data EXCEPT ![target] = GridOf(NAN)]
    /\ Return(0)
    /\ UNCHANGED <<mainVars, popdata, bdata, rdata, callVars, ioVars, raVars,
                   readdata5, rpVars, ncVars, requests>>

RA_OpenFail ==
    /\ pc = "ra_entry"
    /\ ~IsNoData(filename)
    /\ \E f \in FS(filename) : ~f.exists
    /\ diag' = Diag("open", filename, 0, 0)
    /\ Return(1)
    /\ UNCHANGED <<mainVars, arrayVars, callVars, datafile, openData, raVars,
                   readdata5, rpVars, ncVars, requests>>

RA_Open ==
    /\ pc = "ra_entry"
    /\ ~IsNoData(filename)
    /\ \E f \in FS(filename) :
          /\ f.exists
          /\ datafile' = Handle(filename, f)
    /\ openData' = Append(openData, filename)
    /\ year' = FirstYear
    /\ pc' = "ra_loop"
    /\ UNCHANGED <<stat, mainVars, arrayVars, callVars, diag, readdata, transdata,
                   reads, writers, readdata5, rpVars, ncVars, histVars, failures>>

\* fread returns fewer than 12*NLAT*NLON items: return 3 (the file stays open)
RA_ShortRead ==
    /\ pc = "ra_loop"
    /\ year <= LastYear
    /\ FreadCount(datafile, NMONTH * NCELL) # NMONTH * NCELL
    /\ readdata' = FreadInto(readdata, datafile, NMONTH * NCELL)
    /\ datafile' = Advance(datafile, NMONTH * NCELL)
    /\ reads' = Append(reads, <<year, datafile.pos>>)
    /\ requests' = requests \cup {<<fn, "readdata", NMONTH * NCELL>>}
    /\ diag' = Diag("read", filename, year, 0)
    /\ Return(3)
    /\ UNCHANGED <<mainVars, arrayVars, callVars, openData, year, transdata, writers,
                   readdata5, rpVars, ncVars>>

\* a year that is read and dropped
RA_SkipYear ==
    /\ pc = "ra_loop"
    /\ year <= LastYear
    /\ FreadCount(datafile, NMONTH * NCELL) = NMONTH * NCELL
    /\ SkipYear(year)
    /\ readdata' = FreadInto(readdata, datafile, NMONTH * NCELL)
    /\ datafile' = Advance(datafile, NMONTH * NCELL)
    /\ reads' = Append(reads, <<year, datafile.pos>>)
    /\ requests' = requests \cup {<<fn, "readdata", NMONTH * NCELL>>}
    /\ year' = year + 1
    /\ UNCHANGED <<pc, stat, mainVars, arrayVars, callVars, openData, diag, transdata,
                   writers, readdata5, rpVars, ncVars, calls, failures>>

\* a year that is kept: aggregate the 12 months, scale, transpose, store
RA_KeepYear ==
    /\ pc = "ra_loop"
    /\ year <= LastYear
    /\ FreadCount(datafile, NMONTH * NCELL) = NMONTH * NCELL
    /\ ~SkipYear(year)
    /\ readdata' = FreadInto(readdata, datafile, NMONTH * NCELL)
    /\ datafile' = Advance(datafile, NMONTH * NCELL)
    /\ reads' = Append(reads, <<year, datafile.pos>>)
    /\ requests' = requests \cup {<<fn, "readdata", NMONTH * NCELL>>}
    /\ transdata' = Aggregate(transdata, readdata')
    /\ data' = [data EXCEPT ![target][YearIndex(year)] = Transposed(transdata', Fac)]
    /\ writers' = [writers EXCEPT ![YearIndex(year)] = Append(@, year)]
    /\ year' = year + 1
    /\ UNCHANGED <<pc, stat, mainVars, popdata, bdata, rdata, callVars, openData, diag,
                   readdata5, rpVars, ncVars, calls, failures>>

\* after year 2095: fclose(infile); return 0
RA_Done ==
    /\ pc = "ra_loop"
    /\ year > LastYear
    /\ openData' = SubSeq(openData, 1, Len(openData) - 1)
    /\ datafile' = NoFile
    /\ Return(0)
    /\ UNCHANGED <<mainVars, arrayVars, callVars, diag, raVars, readdata5, rpVars,
                   ncVars, requests>>

\* ------------------------------------------------------------ read_5yr_data
\* data[iyear][ilat][ilon] = readdata[iyear][NLAT*ilon + ilat]
Transposed5(rd) ==
    [t \in Steps |-> [la \in Lats |-> [lo \in Lons |-> rd[t * NCELL + FileOffset(la, lo)]]]]

R5_NoData ==
    /\ pc = "r5_entry"
    /\ IsNoData(filename)
    /\ data' = [data EXCEPT ![target] = GridOf(NAN)]
    /\ Return(0)
    /\ UNCHANGED <<mainVars, popdata, bdata, rdata, callVars, ioVars, raVars,
                   readdata5, rpVars, ncVars, requests>>

R5_OpenFail ==
    /\ pc = "r5_entry"
    /\ ~IsNoData(filename)
    /\ \E f \in FS(filename) : ~f.exists
    /\ diag' = Diag("open", filename, 0, 0)
    /\ Return(1)
    /\ UNCHANGED <<mainVars, arrayVars, callVars, datafile, openData, raVars,
                   readdata5, rpVars, ncVars, requests>>

R5_Open ==
    /\ pc = "r5_entry"
    /\ ~IsNoData(filename)
    /\ \E f \in FS(filename) :
          /\ f.exists
          /\ datafile' = Handle(filename, f)
    /\ openData' = Append(openData, filename)
    /\ pc' = "r5_skip"
    /\ UNCHANGED <<stat, mainVars, arrayVars, callVars, diag, raVars, readdata5,
                   rpVars, ncVars, histVars, failures>>

\* the throwaway read: nskipyr*NLAT*NLON items into readdata, result unused
R5_Skip ==
    /\ pc = "r5_skip"
    /\ readdata5' = FreadInto(readdata5, datafile, nskipyr * NCELL)
    /\ datafile' = Advance(datafile, nskipyr * NCELL)
    /\ requests' = requests \cup {<<fn, "readdata", nskipyr * NCELL>>}
    /\ pc' = "r5_read"
    /\ UNCHANGED <<stat, mainVars, arrayVars, callVars, openData, diag, raVars,
                   rpVars, ncVars, calls, failures>>

\* fewer than NYEAR*NLAT*NLON items: return 1 (the file stays open)
R5_ReadFail ==
    /\ pc = "r5_read"
    /\ FreadCount(datafile, NYEAR * NCELL) # NYEAR * NCELL
    /\ readdata5' = FreadInto(readdata5, datafile, NYEAR * NCELL)
    /\ datafile' = Advance(datafile, NYEAR * NCELL)
    /\ requests' = requests \cup {<<fn, "readdata", NYEAR * NCELL>>}
    /\ diag' = Diag("read", filename, 0, 0)
    /\ Return(1)
    /\ UNCHANGED <<mainVars, arrayVars, callVars, openData, raVars, rpVars, ncVars>>

\* the 18 records: transpose and store, return 0 (the file stays open)
R5_Read ==
    /\ pc = "r5_read"
    /\ FreadCount(datafile, NYEAR * NCELL) = NYEAR * NCELL
    /\ readdata5' = FreadInto(readdata5, datafile, NYEAR * NCELL)
    /\ datafile' = Advance(datafile, NYEAR * NCELL)
    /\ requests' = requests \cup {<<fn, "readdata", NYEAR * NCELL>>}
    /\ data' = [data EXCEPT ![target] = Transposed5(readdata5')]
    /\ Return(0)
    /\ UNCHANGED <<mainVars, popdata, bdata, rdata, callVars, openData, diag, raVars,
                   rpVars, ncVars>>

\* ------------------------------------------------------------ read_table_data
\* (the file taken to be laid out [nrow][NYEAR] and transposed on the way in)
FreadTableTransposed(tbl, fh, n) ==
    [t \in Steps |-> [e \in 0 .. (nrow - 1) |->
        IF FreadCount(fh, n) = n THEN BinVal(fh.seed, fh.pos + e * NYEAR + t)
        ELSE tbl[t][e]]]

\* fread(data, sizeof(float), NYEAR*nrow, datafile) into a table laid out [NYEAR][nrow]
FreadTable(tbl, fh, n) ==
    [t \in Steps |-> [e \in 0 .. (nrow - 1) |->
        IF t * nrow + e < FreadCount(fh, n) THEN BinVal(fh.seed, fh.pos + t * nrow + e)
        ELSE tbl[t][e]]]

TableArray == IF tarray = "bdata" THEN bdata ELSE rdata

RT_OpenFail ==
    /\ pc = "rt_entry"
    /\ \E f \in FS(filename) : ~f.exists
    /\ diag' = Diag("open", filename, 0, 0)
    /\ Return(1)
    /\ UNCHANGED <<mainVars, arrayVars, callVars, datafile, openData, raVars,
                   readdata5, rpVars, ncVars, requests>>

RT_Open ==
    /\ pc = "rt_entry"
    /\ \E f \in FS(filename) :
          /\ f.exists
          /\ datafile' = Handle(filename, f)
    /\ openData' = Append(openData, filename)
    /\ pc' = "rt_skip"
    /\ UNCHANGED <<stat, mainVars, arrayVars, callVars, diag, raVars, readdata5,
                   rpVars, ncVars, histVars, failures>>

\* the throwaway year: nrow items into tempdata[NBASIN], result unused
RT_Skip ==
    /\ pc = "rt_skip"
    /\ datafile' = Advance(datafile, nrow)
    /\ requests' = requests \cup {<<fn, "tempdata", nrow>>}
    /\ pc' = "rt_read"
    /\ UNCHANGED <<stat, mainVars, arrayVars, callVars, openData, diag, raVars,
                   readdata5, rpVars, ncVars, calls, failures>>

StoreTable(tbl) ==
    /\ bdata' = IF tarray = "bdata" THEN [bdata EXCEPT ![target] = tbl] ELSE bdata
    /\ rdata' = IF tarray = "bdata" THEN rdata ELSE [rdata EXCEPT ![target] = tbl]

\* fewer than NYEAR*nrow items: return 1 (the file stays open)
RT_ReadFail ==
    /\ pc = "rt_read"
    /\ FreadCount(datafile, NYEAR * nrow) # NYEAR * nrow
    /\ StoreTable(FreadTable(TableArray[target], datafile, NYEAR * nrow))
    /\ datafile' = Advance(datafile, NYEAR * nrow)
    /\ requests' = requests \cup {<<fn, "data", NYEAR * nrow>>}
    /\ diag' = Diag("read", filename, 0, 0)
    /\ Return(1)
    /\ UNCHANGED <<mainVars, data, popdata, callVars, openData, raVars, readdata5,
                   rpVars, ncVars>>

\* the NYEAR*nrow items, read straight into the table: return 0 (the file stays open)
RT_Read ==
    /\ pc = "rt_read"
    /\ FreadCount(datafile, NYEAR * nrow) = NYEAR * nrow
    /\ StoreTable(FreadTable(TableArray[target], datafile, NYEAR * nrow))
    /\ datafile' = Advance(datafile, NYEAR * nrow)
    /\ requests' = requests \cup {<<fn, "data", NYEAR * nrow>>}
    /\ Return(0)
    /\ UNCHANGED <<mainVars, data, popdata, callVars, openData, diag, raVars,
                   readdata5, rpVars, ncVars>>

\* ------------------------------------------------------------ read_pop_data
\* scanf's view of the stream T, of which p items are consumed
IsSpace(x) == x.t = "sp" \/ x.t = "nl"

RECURSIVE SkipSpace(_, _)
\* white space is skipped before a conversion (newlines included)
SkipSpace(T, p) ==
    IF p < Len(T) /\ IsSpace(T[p + 1]) THEN SkipSpace(T, p + 1) ELSE p

\* a %f / %lf conversion at p
ScanFloat(T, p) ==
    LET q == SkipSpace(T, p)
    IN  IF q < Len(T) /\ T[q + 1].t = "num"
        THEN [ok |-> TRUE, pos |-> q + 1, v |-> T[q + 1].v, eof |-> FALSE]
        ELSE [ok |-> FALSE, pos |-> q, v |-> 0, eof |-> q >= Len(T)]

\* the literal ',' of a format at p: the next character must be a comma
ScanComma(T, p) ==
    IF p < Len(T) /\ T[p + 1].t = "comma"
    THEN [ok |-> TRUE, pos |-> p + 1, v |-> 0, eof |-> FALSE]
    ELSE [ok |-> FALSE, pos |-> p, v |-> 0, eof |-> p >= Len(T)]

\* fscanf(datafile, "%*f,%*f"): the position afterwards (the result is not used)
ScanLeading(T, p) ==
    LET a == ScanFloat(T, p)
        b == ScanComma(T, a.pos)
        c == ScanFloat(T, b.pos)
    IN  IF ~a.ok THEN a.pos ELSE IF ~b.ok THEN b.pos ELSE c.pos

\* fscanf(datafile, ",%lf", &tmp): the result nconv (EOF is -1), the position
\* afterwards and the value converted
ScanField(T, p) ==
    LET b == ScanComma(T, p)
        c == ScanFloat(T, b.pos)
    IN  IF ~b.ok THEN [nconv |-> IF b.eof THEN 0 - 1 ELSE 0, pos |-> b.pos, v |-> 0]
        ELSE IF ~c.ok THEN [nconv |-> IF c.eof THEN 0 - 1 ELSE 0, pos |-> c.pos, v |-> 0]
        ELSE [nconv |-> 1, pos |-> c.pos, v |-> c.v]

RECURSIVE Fgets(_, _, _)
\* fgets(buf, size, datafile): the position after reading at most size-1
\* characters, stopping after a newline
Fgets(T, p, size) ==
    IF size <= 1 \/ p >= Len(T) THEN p
    ELSE IF T[p + 1].t = "nl" THEN p + 1
    ELSE Fgets(T, p + 1, size - 1)

\* (int) round(tmp), tmp in tenths: halves are rounded away from zero
Round(v) == IF v >= 0 THEN (v + 5) \div 10 ELSE 0 - ((5 - v) \div 10)

\* the values tmp may hold before its first assignment
UninitTmp == {0, 999}

RP_OpenFail ==
    /\ pc = "rp_entry"
    /\ \E f \in FS(filename) : ~f.exists
    /\ diag' = Diag("open", filename, 0, 0)
    /\ Return(1)
    /\ UNCHANGED <<mainVars, arrayVars, callVars, datafile, openData, raVars,
                   readdata5, rpVars, ncVars, requests>>

RP_Open ==
    /\ pc = "rp_entry"
    /\ \E f \in FS(filename) :
          /\ f.exists
          /\ datafile' = [Handle(filename, f) EXCEPT !.len = Len(Text(f.kind))]
    /\ openData' = Append(openData, filename)
    /\ tmp' \in UninitTmp
    /\ rgn' = 0
    /\ iyear' = 0
    /\ pc' = "rp_line"
    /\ UNCHANGED <<stat, mainVars, arrayVars, callVars, diag, raVars, readdata5,
                   ncVars, histVars, failures>>

\* drop the first two entries of the line
RP_LineStart ==
    /\ pc = "rp_line"
    /\ rgn < NRGN
    /\ datafile' = [datafile EXCEPT !.pos = ScanLeading(Text(datafile.kind), datafile.pos)]
    /\ iyear' = 0
    /\ pc' = "rp_field"
    /\ UNCHANGED <<stat, mainVars, arrayVars, callVars, openData, diag, raVars,
                   readdata5, rgn, tmp, ncVars, histVars, failures>>

\* one year field converted and stored
RP_Field ==
    /\ pc = "rp_field"
    /\ iyear < NYEAR
    /\ LET r == ScanField(Text(datafile.kind), datafile.pos)
       IN  /\ r.nconv = 1
           /\ tmp' = r.v
           /\ datafile' = [datafile EXCEPT !.pos = r.pos]
    /\ popdata' = [popdata EXCEPT ![iyear][rgn] = Round(tmp')]
    /\ iyear' = iyear + 1
    /\ UNCHANGED <<pc, stat, mainVars, data, bdata, rdata, callVars, openData, diag,
                   raVars, readdata5, rgn, ncVars, histVars, failures>>

\* no conversion: tmp as it was is stored, the error is reported, the file closed
RP_FieldFail ==
    /\ pc = "rp_field"
    /\ iyear < NYEAR
    /\ LET r == ScanField(Text(datafile.kind), datafile.pos)
       IN  r.nconv # 1
    /\ popdata' = [popdata EXCEPT ![iyear][rgn] = Round(tmp)]
    /\ diag' = Diag("parse", filename, rgn, iyear)
    /\ openData' = SubSeq(openData, 1, Len(openData) - 1)
    /\ datafile' = NoFile
    /\ Return(1)
    /\ UNCHANGED <<mainVars, data, bdata, rdata, callVars, raVars, readdata5, rpVars,
                   ncVars, requests>>

\* drop the remainder of the line: fgets(buf, 1024, datafile)
RP_LineEnd ==
    /\ pc = "rp_field"
    /\ iyear = NYEAR
    /\ datafile' = [datafile EXCEPT !.pos = Fgets(Text(datafile.kind), datafile.pos, BUFLEN)]
    /\ rgn' = rgn + 1
    /\ pc' = "rp_line"
    /\ UNCHANGED <<stat, mainVars, arrayVars, callVars, openData, diag, raVars,
                   readdata5, iyear, tmp, ncVars, histVars, failures>>

RP_Done ==
    /\ pc = "rp_line"
    /\ rgn = NRGN
    /\ openData' = SubSeq(openData, 1, Len(openData) - 1)
    /\ datafile' = NoFile
    /\ Return(0)
    /\ UNCHANGED <<mainVars, arrayVars, callVars, diag, raVars, readdata5, rpVars,
                   ncVars, requests>>

\* ------------------------------------------------------------ the buffers
\* the number of floats the buffer buf of reader f holds: static float
\* readdata[12][NLON*NLAT], static float readdata[NYEAR][NLON*NLAT], float
\* tempdata[NBASIN], and the table passed as data (a slice of bdata or rdata)
Capacity(f, buf) ==
    CASE f = "read_and_aggregate_data" -> NMONTH * NCELL
      [] f = "read_5yr_data"           -> NYEAR * NCELL
      [] buf = "tempdata"              -> NBASIN
      [] OTHER -> NYEAR * (IF tarray = "bdata" THEN NBASIN ELSE NRGN)

\* the number of slices of the array of main called a
Slices(a) ==
    CASE a = "data"    -> NGRIDI
      [] a = "bdata"   -> NBASINI
      [] a = "rdata"   -> NRGNI
      [] OTHER         -> 1

\* ------------------------------------------------------------ the readers, called alone
NoArchive == [state |-> "none", name |-> "", ops |-> << >>]
Uninit == 0 - 1000000000

\* what a caller's buffers may hold before a call
PriorFloats == {0, 42 * Scale, NAN}

MonthlyNames == {"monthly.dat", "monthly_alt.dat", "monthly_zero.dat", "monthly_long.dat",
                 "monthly_short.dat", "monthly_cut.dat", "missing.dat", "empty.dat",
                 NoDataName}
Grid5Names == {"grid5_21.dat", "grid5_20.dat", "grid5_20alt.dat", "grid5_19.dat",
               "grid5_19cut.dat", "grid5_18.dat", "grid5_18cut.dat", "missing.dat",
               "empty.dat", NoDataName}
TableNames == {"basin.dat", "basin_alt.dat", "basin_short.dat", "region.dat",
               "region_alt.dat", "region_short.dat", "missing.dat", "empty.dat",
               NoDataName}
PopNames == {"pop.csv", "pop_extra.csv", "pop_space.csv", "pop_17.csv", "pop_17last.csv",
             "pop_trail.csv", "pop_junk.csv", "pop_long.csv", "pop_few.csv", "empty.csv",
             "missing.dat", NoDataName}

ReaderCalls ==
    [f : {"read_and_aggregate_data"}, name : MonthlyNames, k : {2}, n : {NRGN}, a : {"data"}]
    \cup [f : {"read_5yr_data"}, name : Grid5Names, k : {1, 2}, n : {NRGN}, a : {"data"}]
    \cup [f : {"read_pop_data"}, name : PopNames, k : {2}, n : {NRGN}, a : {"popdata"}]
    \cup [f : {"read_table_data"}, name : TableNames, k : {2}, n : {NBASIN}, a : {"bdata"}]
    \cup [f : {"read_table_data"}, name : TableNames, k : {2}, n : {NRGN}, a : {"rdata"}]

EntryOf(f) ==
    CASE f = "read_and_aggregate_data" -> "ra_entry"
      [] f = "read_5yr_data"           -> "r5_entry"
      [] f = "read_pop_data"           -> "rp_entry"
      [] OTHER                         -> "rt_entry"

\* one call of one reader, on buffers holding anything
InitReaders ==
    \E c \in ReaderCalls, prior \in PriorFloats, g \in {0, NGRIDI - 1} :
        /\ pc = EntryOf(c.f)
        /\ fn = c.f
        /\ filename = c.name
        /\ nskipyr = c.k
        /\ nrow = c.n
        /\ tarray = c.a
        /\ target = g
        /\ retpc = "returned"
        /\ data = [x \in 0 .. (NGRIDI - 1) |-> GridOf(prior)]
        /\ popdata = TableOf(NRGN, IF prior = 0 THEN 0 ELSE Uninit)
        /\ bdata = [x \in 0 .. (NBASINI - 1) |-> TableOf(NBASIN, prior)]
        /\ rdata = [x \in 0 .. (NRGNI - 1) |-> TableOf(NRGN, prior)]
        /\ readdata = BufferOf(NMONTH * NCELL, prior)
        /\ transdata = BufferOf(NCELL, prior)
        /\ readdata5 = BufferOf(NYEAR * NCELL, prior)
        /\ exitStatus = 0 - 1
        /\ i = 0
        /\ stat = 0
        /\ cfgread = 0
        /\ outfilename = ""
        /\ deviated = FALSE
        /\ datafile = NoFile
        /\ openData = << >>
        /\ diag = NoDiag
        /\ year = 0
        /\ rgn = 0
        /\ iyear = 0
        /\ tmp = 0
        /\ ncstep = 0
        /\ archive = NoArchive
        /\ calls = <<Call(c.f, 0, c.name)>>
        /\ reads = << >>
        /\ writers = [t \in Steps |-> << >>]
        /\ requests = {}
        /\ failures = {}

ReaderStep ==
    \/ RA_NoData \/ RA_OpenFail \/ RA_Open \/ RA_ShortRead \/ RA_SkipYear
    \/ RA_KeepYear \/ RA_Done
    \/ R5_NoData \/ R5_OpenFail \/ R5_Open \/ R5_Skip \/ R5_ReadFail \/ R5_Read
    \/ RT_OpenFail \/ RT_Open \/ RT_Skip \/ RT_ReadFail \/ RT_Read
    \/ RP_OpenFail \/ RP_Open \/ RP_LineStart \/ RP_Field \/ RP_FieldFail
    \/ RP_LineEnd \/ RP_Done

SpecReaders == InitReaders /\ [][ReaderStep]_vars

\* ------------------------------------------------------------ mat2nc
\* The archive-library calls of mat2nc in program order.  name is the dimension
\* or variable the call is about, arr and idx the array of main a data write
\* takes its values from, line the source line of the call, and checked
\* whether check_err is applied to its status.
NcCalls ==
    <<[op |-> "create", name |-> "outfilename", type |-> "NC_CLOBBER", dims |-> << >>, att |-> "", arr |-> "", idx |-> 0, line |-> 320, checked |-> TRUE],
      [op |-> "def_dim", name |-> "lat", type |-> "", dims |-> << >>, att |-> "", arr |-> "", idx |-> 0, line |-> 324, checked |-> TRUE],
      [op |-> "def_dim", name |-> "lon", type |-> "", dims |-> << >>, att |-> "", arr |-> "", idx |-> 0, line |-> 326, checked |-> TRUE],
      [op |-> "def_dim", name |-> "time", type |-> "", dims |-> << >>, att |-> "", arr |-> "", idx |-> 0, line |-> 328, checked |-> TRUE],
      [op |-> "def_dim", name |-> "rgn", type |-> "", dims |-> << >>, att |-> "", arr |-> "", idx |-> 0, line |-> 330, checked |-> TRUE],
      [op |-> "def_dim", name |-> "basin", type |-> "", dims |-> << >>, att |-> "", arr |-> "", idx |-> 0, line |-> 332, checked |-> TRUE],
      [op |-> "def_var", name |-> "lat", type |-> "NC_FLOAT", dims |-> <<"lat">>, att |-> "", arr |-> "", idx |-> 0, line |-> 338, checked |-> TRUE],
      [op |-> "def_var", name |-> "lon", type |-> "NC_FLOAT", dims |-> <<"lon">>, att |-> "", arr |-> "", idx |-> 0, line |-> 342, checked |-> TRUE],
      [op |-> "def_var", name |-> "time", type |-> "NC_FLOAT", dims |-> <<"time">>, att |-> "", arr |-> "", idx |-> 0, line |-> 346, checked |-> TRUE],
      [op |-> "def_var", name |-> "rgn", type |-> "NC_INT", dims |-> <<"rgn">>, att |-> "", arr |-> "", idx |-> 0, line |-> 350, checked |-> TRUE],
      [op |-> "def_var", name |-> "basin", type |-> "NC_INT", dims |-> <<"basin">>, att |-> "", arr |-> "", idx |-> 0, line |-> 354, checked |-> TRUE],
      [op |-> "def_var", name |-> "supply", type |-> "NC_FLOAT", dims |-> <<"time", "lat", "lon">>, att |-> "", arr |-> "", idx |-> 0, line |-> 360, checked |-> TRUE],
      [op |-> "def_var", name |-> "irrigation_demand", type |-> "NC_FLOAT", dims |-> <<"time", "lat", "lon">>, att |-> "", arr |-> "", idx |-> 0, line |-> 366, checked |-> TRUE],
      [op |-> "def_var", name |-> "livestock_demand", type |-> "NC_FLOAT", dims |-> <<"time", "lat", "lon">>, att |-> "", arr |-> "", idx |-> 0, line |-> 372, checked |-> TRUE],
      [op |-> "def_var", name |-> "electricity_demand", type |-> "NC_FLOAT", dims |-> <<"time", "lat", "lon">>, att |-> "", arr |-> "", idx |-> 0, line |-> 378, checked |-> TRUE],
      [op |-> "def_var", name |-> "mfg_demand", type |-> "NC_FLOAT", dims |-> <<"time", "lat", "lon">>, att |-> "", arr |-> "", idx |-> 0, line |-> 384, checked |-> TRUE],
      [op |-> "def_var", name |-> "total_demand", type |-> "NC_FLOAT", dims |-> <<"time", "lat", "lon">>, att |-> "", arr |-> "", idx |-> 0, line |-> 390, checked |-> TRUE],
      [op |-> "def_var", name |-> "domestic_demand", type |-> "NC_FLOAT", dims |-> <<"time", "lat", "lon">>, att |-> "", arr |-> "", idx |-> 0, line |-> 396, checked |-> TRUE],
      [op |-> "def_var", name |-> "scarcity", type |-> "NC_FLOAT", dims |-> <<"time", "lat", "lon">>, att |-> "", arr |-> "", idx |-> 0, line |-> 402, checked |-> TRUE],
      [op |-> "def_var", name |-> "population", type |-> "NC_INT", dims |-> <<"time", "rgn">>, att |-> "", arr |-> "", idx |-> 0, line |-> 407, checked |-> TRUE],
      [op |-> "def_var", name |-> "basin_supply", type |-> "NC_FLOAT", dims |-> <<"time", "basin">>, att |-> "", arr |-> "", idx |-> 0, line |-> 412, checked |-> TRUE],
      [op |-> "def_var", name |-> "basin_irrigation_demand", type |-> "NC_FLOAT", dims |-> <<"time", "basin">>, att |-> "", arr |-> "", idx |-> 0, line |-> 415, checked |-> TRUE],
      [op |-> "def_var", name |-> "basin_livestock_demand", type |-> "NC_FLOAT", dims |-> <<"time", "basin">>, att |-> "", arr |-> "", idx |-> 0, line |-> 417, checked |-> TRUE],
      [op |-> "def_var", name |-> "basin_electricity_demand", type |-> "NC_FLOAT", dims |-> <<"time", "basin">>, att |-> "", arr |-> "", idx |-> 0, line |-> 419, checked |-> TRUE],
      [op |-> "def_var", name |-> "basin_manufacturing_demand", type |-> "NC_FLOAT", dims |-> <<"time", "basin">>, att |-> "", arr |-> "", idx |-> 0, line |-> 421, checked |-> TRUE],
      [op |-> "def_var", name |-> "basin_total_demand", type |-> "NC_FLOAT", dims |-> <<"time", "basin">>, att |-> "", arr |-> "", idx |-> 0, line |-> 423, checked |-> TRUE],
      [op |-> "def_var", name |-> "basin_domestic_demand", type |-> "NC_FLOAT", dims |-> <<"time", "basin">>, att |-> "", arr |-> "", idx |-> 0, line |-> 425, checked |-> TRUE],
      [op |-> "def_var", name |-> "basin_water_scarcity", type |-> "NC_FLOAT", dims |-> <<"time", "basin">>, att |-> "", arr |-> "", idx |-> 0, line |-> 427, checked |-> TRUE],
      [op |-> "def_var", name |-> "region_supply", type |-> "NC_FLOAT", dims |-> <<"time", "rgn">>, att |-> "", arr |-> "", idx |-> 0, line |-> 431, checked |-> TRUE],
      [op |-> "def_var", name |-> "region_irrigation_demand", type |-> "NC_FLOAT", dims |-> <<"time", "rgn">>, att |-> "", arr |-> "", idx |-> 0, line |-> 433, checked |-> TRUE],
      [op |-> "def_var", name |-> "region_livestock_demand", type |-> "NC_FLOAT", dims |-> <<"time", "rgn">>, att |-> "", arr |-> "", idx |-> 0, line |-> 435, checked |-> TRUE],
      [op |-> "def_var", name |-> "region_electricity_demand", type |-> "NC_FLOAT", dims |-> <<"time", "rgn">>, att |-> "", arr |-> "", idx |-> 0, line |-> 437, checked |-> TRUE],
      [op |-> "def_var", name |-> "region_manufacturing_demand", type |-> "NC_FLOAT", dims |-> <<"time", "rgn">>, att |-> "", arr |-> "", idx |-> 0, line |-> 439, checked |-> TRUE],
      [op |-> "def_var", name |-> "region_total", type |-> "NC_FLOAT", dims |-> <<"time", "rgn">>, att |-> "", arr |-> "", idx |-> 0, line |-> 441, checked |-> TRUE],
      [op |-> "def_var", name |-> "region_domestic_demand", type |-> "NC_FLOAT", dims |-> <<"time", "rgn">>, att |-> "", arr |-> "", idx |-> 0, line |-> 443, checked |-> TRUE],
      [op |-> "def_var", name |-> "region_water_scarcity", type |-> "NC_FLOAT", dims |-> <<"time", "rgn">>, att |-> "", arr |-> "", idx |-> 0, line |-> 445, checked |-> TRUE],
      [op |-> "put_att_float", name |-> "", type |-> "NC_FLOAT", dims |-> << >>, att |-> "forcing", arr |-> "", idx |-> 0, line |-> 450, checked |-> TRUE],
      [op |-> "put_att_float", name |-> "", type |-> "NC_FLOAT", dims |-> << >>, att |-> "population", arr |-> "", idx |-> 0, line |-> 454, checked |-> TRUE],
      [op |-> "put_att_text", name |-> "lat", type |-> "degrees_north", dims |-> << >>, att |-> "units", arr |-> "", idx |-> 0, line |-> 466, checked |-> TRUE],
      [op |-> "put_att_text", name |-> "lon", type |-> "degrees_east", dims |-> << >>, att |-> "units", arr |-> "", idx |-> 0, line |-> 470, checked |-> TRUE],
      [op |-> "put_att_text", name |-> "time", type |-> "year", dims |-> << >>, att |-> "units", arr |-> "", idx |-> 0, line |-> 474, checked |-> TRUE],
      [op |-> "put_att_text", name |-> "population", type |-> "thousands", dims |-> << >>, att |-> "units", arr |-> "", idx |-> 0, line |-> 477, checked |-> TRUE],
      [op |-> "put_att_text", name |-> "supply", type |-> "km^3", dims |-> << >>, att |-> "units", arr |-> "", idx |-> 0, line |-> 481, checked |-> FALSE],
      [op |-> "put_att_text", name |-> "irrigation_demand", type |-> "km^3", dims |-> << >>, att |-> "units", arr |-> "", idx |-> 0, line |-> 482, checked |-> FALSE],
      [op |-> "put_att_text", name |-> "livestock_demand", type |-> "km^3", dims |-> << >>, att |-> "units", arr |-> "", idx |-> 0, line |-> 483, checked |-> FALSE],
      [op |-> "put_att_text", name |-> "electricity_demand", type |-> "km^3", dims |-> << >>, att |-> "units", arr |-> "", idx |-> 0, line |-> 484, checked |-> FALSE],
      [op |-> "put_att_text", name |-> "mfg_demand", type |-> "km^3", dims |-> << >>, att |-> "units", arr |-> "", idx |-> 0, line |-> 485, checked |-> FALSE],
      [op |-> "put_att_text", name |-> "total_demand", type |-> "km^3", dims |-> << >>, att |-> "units", arr |-> "", idx |-> 0, line |-> 486, checked |-> FALSE],
      [op |-> "put_att_text", name |-> "domestic_demand", type |-> "km^3", dims |-> << >>, att |-> "units", arr |-> "", idx |-> 0, line |-> 487, checked |-> FALSE],
      [op |-> "put_att_text", name |-> "basin_supply", type |-> "km^3", dims |-> << >>, att |-> "units", arr |-> "", idx |-> 0, line |-> 489, checked |-> FALSE],
      [op |-> "put_att_text", name |-> "basin_irrigation_demand", type |-> "km^3", dims |-> << >>, att |-> "units", arr |-> "", idx |-> 0, line |-> 490, checked |-> FALSE],
      [op |-> "put_att_text", name |-> "basin_livestock_demand", type |-> "km^3", dims |-> << >>, att |-> "units", arr |-> "", idx |-> 0, line |-> 491, checked |-> FALSE],
      [op |-> "put_att_text", name |-> "basin_electricity_demand", type |-> "km^3", dims |-> << >>, att |-> "units", arr |-> "", idx |-> 0, line |-> 492, checked |-> FALSE],
      [op |-> "put_att_text", name |-> "basin_manufacturing_demand", type |-> "km^3", dims |-> << >>, att |-> "units", arr |-> "", idx |-> 0, line |-> 493, checked |-> FALSE],
      [op |-> "put_att_text", name |-> "basin_total_demand", type |-> "km^3", dims |-> << >>, att |-> "units", arr |-> "", idx |-> 0, line |-> 494, checked |-> FALSE],
      [op |-> "put_att_text", name |-> "basin_domestic_demand", type |-> "km^3", dims |-> << >>, att |-> "units", arr |-> "", idx |-> 0, line |-> 495, checked |-> FALSE],
      [op |-> "put_att_text", name |-> "region_supply", type |-> "km^3", dims |-> << >>, att |-> "units", arr |-> "", idx |-> 0, line |-> 497, checked |-> FALSE],
      [op |-> "put_att_text", name |-> "region_irrigation_demand", type |-> "km^3", dims |-> << >>, att |-> "units", arr |-> "", idx |-> 0, line |-> 498, checked |-> FALSE],
      [op |-> "put_att_text", name |-> "region_livestock_demand", type |-> "km^3", dims |-> << >>, att |-> "units", arr |-> "", idx |-> 0, line |-> 499, checked |-> FALSE],
      [op |-> "put_att_text", name |-> "region_electricity_demand", type |-> "km^3", dims |-> << >>, att |-> "units", arr |-> "", idx |-> 0, line |-> 500, checked |-> FALSE],
      [op |-> "put_att_text", name |-> "region_manufacturing_demand", type |-> "km^3", dims |-> << >>, att |-> "units", arr |-> "", idx |-> 0, line |-> 501, checked |-> FALSE],
      [op |-> "put_att_text", name |-> "region_total", type |-> "km^3", dims |-> << >>, att |-> "units", arr |-> "", idx |-> 0, line |-> 502, checked |-> FALSE],
      [op |-> "put_att_text", name |-> "region_domestic_demand", type |-> "km^3", dims |-> << >>, att |-> "units", arr |-> "", idx |-> 0, line |-> 503, checked |-> FALSE],
      [op |-> "put_att_text", name |-> "scarcity", type |-> "(unitless)", dims |-> << >>, att |-> "units", arr |-> "", idx |-> 0, line |-> 507, checked |-> FALSE],
      [op |-> "put_att_text", name |-> "basin_water_scarcity", type |-> "(unitless)", dims |-> << >>, att |-> "units", arr |-> "", idx |-> 0, line |-> 508, checked |-> FALSE],
      [op |-> "put_att_text", name |-> "region_water_scarcity", type |-> "(unitless)", dims |-> << >>, att |-> "units", arr |-> "", idx |-> 0, line |-> 509, checked |-> FALSE],
      [op |-> "enddef", name |-> "", type |-> "", dims |-> << >>, att |-> "", arr |-> "", idx |-> 0, line |-> 512, checked |-> TRUE],
      [op |-> "put_vara", name |-> "lat", type |-> "", dims |-> << >>, att |-> "", arr |-> "lat_data", idx |-> 0, line |-> 520, checked |-> TRUE],
      [op |-> "put_vara", name |-> "lon", type |-> "", dims |-> << >>, att |-> "", arr |-> "lon_data", idx |-> 0, line |-> 528, checked |-> TRUE],
      [op |-> "put_vara", name |-> "time", type |-> "", dims |-> << >>, att |-> "", arr |-> "time_data", idx |-> 0, line |-> 536, checked |-> TRUE],
      [op |-> "put_var_int", name |-> "rgn", type |-> "", dims |-> << >>, att |-> "", arr |-> "rgn_data", idx |-> 0, line |-> 543, checked |-> TRUE],
      [op |-> "put_var_int", name |-> "basin", type |-> "", dims |-> << >>, att |-> "", arr |-> "basin_data", idx |-> 0, line |-> 549, checked |-> TRUE],
      [op |-> "put_var_float", name |-> "supply", type |-> "", dims |-> << >>, att |-> "", arr |-> "data", idx |-> 0, line |-> 553, checked |-> TRUE],
      [op |-> "put_var_float", name |-> "irrigation_demand", type |-> "", dims |-> << >>, att |-> "", arr |-> "data", idx |-> 1, line |-> 556, checked |-> TRUE],
      [op |-> "put_var_float", name |-> "livestock_demand", type |-> "", dims |-> << >>, att |-> "", arr |-> "data", idx |-> 2, line |-> 559, checked |-> TRUE],
      [op |-> "put_var_float", name |-> "electricity_demand", type |-> "", dims |-> << >>, att |-> "", arr |-> "data", idx |-> 3, line |-> 562, checked |-> TRUE],
      [op |-> "put_var_float", name |-> "mfg_demand", type |-> "", dims |-> << >>, att |-> "", arr |-> "data", idx |-> 4, line |-> 565, checked |-> TRUE],
      [op |-> "put_var_float", name |-> "total_demand", type |-> "", dims |-> << >>, att |-> "", arr |-> "data", idx |-> 5, line |-> 568, checked |-> TRUE],
      [op |-> "put_var_float", name |-> "domestic_demand", type |-> "", dims |-> << >>, att |-> "", arr |-> "data", idx |-> 6, line |-> 571, checked |-> TRUE],
      [op |-> "put_var_float", name |-> "scarcity", type |-> "", dims |-> << >>, att |-> "", arr |-> "data", idx |-> 7, line |-> 574, checked |-> TRUE],
      [op |-> "put_var_int", name |-> "population", type |-> "", dims |-> << >>, att |-> "", arr |-> "popdata", idx |-> 0, line |-> 577, checked |-> TRUE],
      [op |-> "put_var_float", name |-> "basin_supply", type |-> "", dims |-> << >>, att |-> "", arr |-> "bdata", idx |-> 0, line |-> 580, checked |-> TRUE],
      [op |-> "put_var_float", name |-> "basin_irrigation_demand", type |-> "", dims |-> << >>, att |-> "", arr |-> "bdata", idx |-> 1, line |-> 583, checked |-> TRUE],
      [op |-> "put_var_float", name |-> "basin_livestock_demand", type |-> "", dims |-> << >>, att |-> "", arr |-> "bdata", idx |-> 2, line |-> 586, checked |-> TRUE],
      [op |-> "put_var_float", name |-> "basin_electricity_demand", type |-> "", dims |-> << >>, att |-> "", arr |-> "bdata", idx |-> 3, line |-> 589, checked |-> TRUE],
      [op |-> "put_var_float", name |-> "basin_manufacturing_demand", type |-> "", dims |-> << >>, att |-> "", arr |-> "bdata", idx |-> 4, line |-> 592, checked |-> TRUE],
      [op |-> "put_var_float", name |-> "basin_total_demand", type |-> "", dims |-> << >>, att |-> "", arr |-> "bdata", idx |-> 5, line |-> 595, checked |-> TRUE],
      [op |-> "put_var_float", name |-> "basin_domestic_demand", type |-> "", dims |-> << >>, att |-> "", arr |-> "bdata", idx |-> 6, line |-> 598, checked |-> TRUE],
      [op |-> "put_var_float", name |-> "basin_water_scarcity", type |-> "", dims |-> << >>, att |-> "", arr |-> "bdata", idx |-> 7, line |-> 601, checked |-> TRUE],
      [op |-> "put_var_float", name |-> "region_supply", type |-> "", dims |-> << >>, att |-> "", arr |-> "rdata", idx |-> 0, line |-> 605, checked |-> TRUE],
      [op |-> "put_var_float", name |-> "region_irrigation_demand", type |-> "", dims |-> << >>, att |-> "", arr |-> "rdata", idx |-> 1, line |-> 608, checked |-> TRUE],
      [op |-> "put_var_float", name |-> "region_livestock_demand", type |-> "", dims |-> << >>, att |-> "", arr |-> "rdata", idx |-> 2, line |-> 611, checked |-> TRUE],
      [op |-> "put_var_float", name |-> "region_electricity_demand", type |-> "", dims |-> << >>, att |-> "", arr |-> "rdata", idx |-> 3, line |-> 614, checked |-> TRUE],
      [op |-> "put_var_float", name |-> "region_manufacturing_demand", type |-> "", dims |-> << >>, att |-> "", arr |-> "rdata", idx |-> 4, line |-> 617, checked |-> TRUE],
      [op |-> "put_var_float", name |-> "region_total", type |-> "", dims |-> << >>, att |-> "", arr |-> "rdata", idx |-> 5, line |-> 620, checked |-> TRUE],
      [op |-> "put_var_float", name |-> "region_domestic_demand", type |-> "", dims |-> << >>, att |-> "", arr |-> "rdata", idx |-> 6, line |-> 623, checked |-> TRUE],
      [op |-> "put_var_float", name |-> "region_water_scarcity", type |-> "", dims |-> << >>, att |-> "", arr |-> "rdata", idx |-> 7, line |-> 626, checked |-> TRUE],
      [op |-> "close", name |-> "", type |-> "", dims |-> << >>, att |-> "", arr |-> "", idx |-> 0, line |-> 630, checked |-> TRUE]>>

NNC == Len(NcCalls)

\* (the lengths of lat and lon exchanged)
DimLenSwapped(name) ==
    CASE name = "lat"  -> NLON
      [] name = "lon"  -> NLAT
      [] name = "time" -> NYEAR
      [] name = "rgn"  -> NRGN
      [] OTHER         -> NBASIN
\* the length nc_def_dim is given for a dimension: lat_len = NLAT, lon_len =
\* NLON, time_len = NYEAR, rgn_len = NRGN, basin_len = NBASIN
DimLen(name) ==
    CASE name = "lat"  -> NLAT
      [] name = "lon"  -> NLON
      [] name = "time" -> NYEAR
      [] name = "rgn"  -> NRGN
      [] OTHER         -> NBASIN

\* (the first data write made before define mode is left)
NextCallWriteFirst(n) ==
    LET e == CHOOSE k \in DOMAIN NcCalls : NcCalls[k].op = "enddef"
    IN  NcCalls[IF n + 1 = e THEN e + 1 ELSE IF n = e THEN e ELSE n + 1]
\* the call mat2nc makes after n calls: the statements run in program order
NextCall(n) == NcCalls[n + 1]

\* the archive after call c has succeeded
Applied(a, c) ==
    CASE c.op = "create"  -> [a EXCEPT !.state = "define", !.name = outfilename,
                                       !.ops = Append(@, c.line)]
      [] c.op = "enddef"  -> [a EXCEPT !.state = "data", !.ops = Append(@, c.line)]
      [] c.op = "close"   -> [a EXCEPT !.state = "closed", !.ops = Append(@, c.line)]
      [] OTHER            -> [a EXCEPT !.ops = Append(@, c.line)]

\* an archive-library call returns NC_NOERR
Nc_Ok ==
    /\ pc = "nc"
    /\ ncstep < NNC
    /\ archive' = Applied(archive, NextCall(ncstep))
    /\ ncstep' = ncstep + 1
    /\ UNCHANGED <<pc, stat, mainVars, arrayVars, callVars, ioVars, raVars, readdata5,
                   rpVars, histVars, failures>>

\* the status a failed archive-library call leads to: check_err exits with 1
\* where it is applied, and the status is overwritten where it is not
CheckErr(c) == c.checked

\* a call fails and check_err ends the process: exit(1)
Nc_Fatal ==
    /\ pc = "nc"
    /\ ncstep < NNC
    /\ ~deviated
    /\ CheckErr(NextCall(ncstep))
    /\ deviated' = TRUE
    /\ failures' = failures \cup {"archive"}
    /\ diag' = Diag("nc", outfilename, NextCall(ncstep).line, 0)
    /\ pc' = "exit"
    /\ exitStatus' = 1
    /\ UNCHANGED <<stat, i, nskipyr, cfgread, outfilename, filename, arrayVars, callVars,
                   datafile, openData, raVars, readdata5, rpVars, ncVars, histVars>>

\* a call fails and its status is never looked at
Nc_Ignored ==
    /\ pc = "nc"
    /\ ncstep < NNC
    /\ ~deviated
    /\ ~CheckErr(NextCall(ncstep))
    /\ deviated' = TRUE
    /\ failures' = failures \cup {"archive"}
    /\ ncstep' = ncstep + 1
    /\ UNCHANGED <<pc, stat, i, nskipyr, cfgread, outfilename, filename, exitStatus,
                   arrayVars, callVars, ioVars, raVars, readdata5, rpVars, archive,
                   histVars>>

\* return 0
Nc_Return ==
    /\ pc = "nc"
    /\ ncstep = NNC
    /\ stat' = 0
    /\ calls' = [calls EXCEPT ![Len(calls)].ret = 0]
    /\ pc' = "main_return"
    /\ UNCHANGED <<mainVars, arrayVars, callVars, ioVars, raVars, readdata5, rpVars,
                   ncVars, requests, failures>>

\* ------------------------------------------------------------ main
Exit(v) == pc' = "exit" /\ exitStatus' = v

\* argc != 2: usage, return 2
Main_Usage ==
    /\ pc = "main"
    /\ failures' = failures \cup {"usage"}
    /\ Exit(2)
    /\ UNCHANGED <<stat, i, nskipyr, cfgread, outfilename, filename, deviated, arrayVars,
                   callVars, ioVars, raVars, readdata5, rpVars, ncVars, histVars>>

\* the configuration file cannot be opened: return 1
Main_ConfigOpenFail ==
    /\ pc = "main"
    /\ failures' = failures \cup {"config"}
    /\ diag' = Diag("open", "config", 0, 0)
    /\ Exit(1)
    /\ UNCHANGED <<stat, i, nskipyr, cfgread, outfilename, filename, deviated, arrayVars,
                   callVars, datafile, openData, raVars, readdata5, rpVars, ncVars,
                   histVars>>

\* the configuration is stdin or a file that opens
Main_ConfigOpen ==
    /\ pc = "main"
    /\ pc' = "globals"
    /\ UNCHANGED <<stat, mainVars, arrayVars, callVars, ioVars, raVars, readdata5,
                   rpVars, ncVars, histVars, failures>>

\* nread after the three fscanf(infile, "%f", ...): the stream starts with k
\* numbers, and what follows them makes every later %f return r (0 for text
\* that is no number, -1 at the end of the stream)
Nread(k, r) == k + (3 - k) * r

Main_Globals ==
    /\ pc = "globals"
    /\ Nread(3, 0) = 3
    /\ cfgread' = 3
    /\ pc' = "rfn_out"
    /\ UNCHANGED <<stat, i, nskipyr, outfilename, filename, exitStatus, deviated,
                   arrayVars, callVars, ioVars, raVars, readdata5, rpVars, ncVars,
                   histVars, failures>>

\* nread != 3: return 3
Main_GlobalsFail ==
    /\ pc = "globals"
    /\ \E k \in 0 .. 2, r \in {0, 0 - 1} :
          /\ Nread(k, r) # 3
          /\ cfgread' = k
    /\ failures' = failures \cup {"config"}
    /\ diag' = Diag("globals", "config", 0, 0)
    /\ Exit(3)
    /\ UNCHANGED <<stat, i, nskipyr, outfilename, filename, deviated, arrayVars,
                   callVars, datafile, openData, raVars, readdata5, rpVars, ncVars,
                   histVars>>

\* the path tokens the configuration may hold for file number k: the nominal
\* one, the sentinel, a file that does not exist, a file that is too short
NominalToken(k) == IF k = OUTPUT THEN "water.nc" ELSE NominalNames[k]
ShortToken(k) ==
    CASE k = G_SUPPLY             -> "monthly_cut.dat"
      [] k > G_SUPPLY /\ k <= G_WSI -> "grid5_18.dat"
      [] k = POP                  -> "pop_17.csv"
      [] k >= B_SUPPLY /\ k <= B_WSI -> "basin_short.dat"
      [] OTHER                    -> "region_short.dat"
OtherTokens(k) == IF k = OUTPUT THEN {} ELSE {NoDataName, "missing.dat", ShortToken(k)}

\* read_file_name(infile, fn) returning 0 at the site that reads the token of
\* file number k, main going on at next
ReadFileName(site, k, next) ==
    /\ pc = site
    /\ \E name \in {NominalToken(k)} \cup OtherTokens(k) :
          /\ name = NominalToken(k) \/ ~deviated
          /\ deviated' = (deviated \/ name # NominalToken(k))
          /\ IF k = OUTPUT
             THEN outfilename' = name /\ UNCHANGED filename
             ELSE filename' = name /\ UNCHANGED outfilename
    /\ cfgread' = cfgread + 1
    /\ stat' = 0
    /\ pc' = next
    /\ UNCHANGED <<i, nskipyr, exitStatus, arrayVars, callVars, ioVars, raVars,
                   readdata5, rpVars, ncVars, histVars, failures>>

Main_ReadOutName == ReadFileName("rfn_out", OUTPUT, "rfn_supply")
Main_ReadSupplyName == ReadFileName("rfn_supply", G_SUPPLY, "call_supply")
Main_ReadGridName == ReadFileName("rfn_grid", i, "call_grid")
Main_ReadPopName == ReadFileName("rfn_pop", POP, "call_pop")
Main_ReadBasinName == ReadFileName("rfn_basin", i, "call_basin")
Main_ReadRegionName == ReadFileName("rfn_region", i, "call_region")

\* read_file_name returns 1 (the stream has ended): main returns 3
Main_ReadNameFail ==
    /\ pc \in {"rfn_out", "rfn_supply", "rfn_grid", "rfn_pop", "rfn_basin", "rfn_region"}
    /\ ~deviated
    /\ deviated' = TRUE
    /\ stat' = 1
    /\ failures' = failures \cup {"config"}
    /\ diag' = Diag("config", "config", 0, 0)
    /\ Exit(3)
    /\ UNCHANGED <<i, nskipyr, cfgread, outfilename, filename, arrayVars, callVars,
                   datafile, openData, raVars, readdata5, rpVars, ncVars, histVars>>

\* main calls reader f, which fills slice g of array a and returns to next
CallReader(site, f, a, g, n, next) ==
    /\ pc = site
    /\ fn' = f
    /\ tarray' = a
    /\ target' = g
    /\ nrow' = n
    /\ retpc' = next
    /\ pc' = EntryOf(f)
    /\ calls' = Append(calls, Call(f, IF site = "call_supply" THEN G_SUPPLY
                                      ELSE IF site = "call_pop" THEN POP ELSE i, filename))

\* stat = read_and_aggregate_data(filename, data[0])
Main_CallAggregate ==
    /\ CallReader("call_supply", "read_and_aggregate_data", "data", 0, nrow, "after_supply")
    /\ UNCHANGED <<stat, mainVars, arrayVars, ioVars, raVars, readdata5, rpVars, ncVars,
                   requests, failures>>

\* the status of read_and_aggregate_data is not looked at; nskipyr = 2; i = G_IRR
Main_AfterAggregate ==
    /\ pc = "after_supply"
    /\ nskipyr' = 2
    /\ i' = G_IRR
    /\ pc' = "rfn_grid"
    /\ UNCHANGED <<stat, cfgread, outfilename, filename, exitStatus, deviated, arrayVars,
                   callVars, ioVars, raVars, readdata5, rpVars, ncVars, histVars,
                   failures>>

\* if(i==G_WSI) nskipyr = 1; stat = read_5yr_data(filename, data[i-G_SUPPLY], nskipyr)
\* (the one-year skip given to irrigation demand, the first five-year grid)
SkipYearsFirst(k, cur) == IF k = G_IRR THEN 1 ELSE cur
SkipYears(k, cur) == IF k = G_WSI THEN 1 ELSE cur

Main_Call5yr ==
    /\ CallReader("call_grid", "read_5yr_data", "data", i - G_SUPPLY, nrow, "ret_grid")
    /\ nskipyr' = SkipYears(i, nskipyr)
    /\ UNCHANGED <<stat, i, cfgread, outfilename, filename, exitStatus, deviated,
                   arrayVars, ioVars, raVars, readdata5, rpVars, ncVars, requests,
                   failures>>

\* stat = read_pop_data(filename, popdata)
Main_CallPop ==
    /\ CallReader("call_pop", "read_pop_data", "popdata", 0, nrow, "ret_pop")
    /\ UNCHANGED <<stat, mainVars, arrayVars, ioVars, raVars, readdata5, rpVars, ncVars,
                   requests, failures>>

\* (the row count passed one too large)
Main_CallBasinWide ==
    /\ CallReader("call_basin", "read_table_data", "bdata", i - B_SUPPLY, NBASIN + 1, "ret_basin")
    /\ UNCHANGED <<stat, mainVars, arrayVars, ioVars, raVars, readdata5, rpVars, ncVars,
                   requests, failures>>
\* stat = read_table_data(filename, NBASIN, (float*) bdata[i-B_SUPPLY])
Main_CallBasin ==
    /\ CallReader("call_basin", "read_table_data", "bdata", i - B_SUPPLY, NBASIN, "ret_basin")
    /\ UNCHANGED <<stat, mainVars, arrayVars, ioVars, raVars, readdata5, rpVars, ncVars,
                   requests, failures>>

\* stat = read_table_data(filename, NRGN, (float*) rdata[i-R_SUPPLY])
Main_CallRegion ==
    /\ CallReader("call_region", "read_table_data", "rdata", i - R_SUPPLY, NRGN, "ret_region")
    /\ UNCHANGED <<stat, mainVars, arrayVars, ioVars, raVars, readdata5, rpVars, ncVars,
                   requests, failures>>

\* if(stat) return stat, after read_5yr_data, read_pop_data and read_table_data
Main_ReaderFailed ==
    /\ pc \in {"ret_grid", "ret_pop", "ret_basin", "ret_region"}
    /\ stat # 0
    /\ Exit(stat)
    /\ UNCHANGED <<stat, i, nskipyr, cfgread, outfilename, filename, deviated, arrayVars,
                   callVars, ioVars, raVars, readdata5, rpVars, ncVars, histVars,
                   failures>>

\* (the loop left one index early)
GoOnEarly(ret, last, again, after, first) ==
    /\ pc = ret
    /\ stat = 0
    /\ IF i < last - 1
       THEN i' = i + 1 /\ pc' = again
       ELSE i' = first /\ pc' = after
    /\ UNCHANGED <<stat, nskipyr, cfgread, outfilename, filename, exitStatus, deviated,
                   arrayVars, callVars, ioVars, raVars, readdata5, rpVars, ncVars,
                   histVars, failures>>
\* main goes on after a reader that returned 0: the next index of the loop
\* (from the site ret, up to index last), or the statement after the loop
GoOn(ret, last, again, after, first) ==
    /\ pc = ret
    /\ stat = 0
    /\ IF i < last
       THEN i' = i + 1 /\ pc' = again
       ELSE i' = first /\ pc' = after
    /\ UNCHANGED <<stat, nskipyr, cfgread, outfilename, filename, exitStatus, deviated,
                   arrayVars, callVars, ioVars, raVars, readdata5, rpVars, ncVars,
                   histVars, failures>>

Main_NextGrid == GoOn("ret_grid", G_WSI, "rfn_grid", "rfn_pop", G_WSI + 1)
\* (the basin tables passed over)
Main_AfterPopToRegions == GoOn("ret_pop", OUTPUT, "rfn_pop", "rfn_region", R_SUPPLY)
Main_AfterPop == GoOn("ret_pop", OUTPUT, "rfn_pop", "rfn_basin", B_SUPPLY)
Main_NextBasin == GoOn("ret_basin", B_WSI, "rfn_basin", "rfn_region", R_SUPPLY)
Main_NextRegion == GoOn("ret_region", R_WSI, "rfn_region", "call_mat2nc", R_WSI + 1)

\* stat = mat2nc(outfilename, &md, data[0], ..., rdata[7])
Main_CallMat2nc ==
    /\ pc = "call_mat2nc"
    /\ calls' = Append(calls, Call("mat2nc", OUTPUT, outfilename))
    /\ ncstep' = 0
    /\ pc' = "nc"
    /\ UNCHANGED <<stat, mainVars, arrayVars, callVars, ioVars, raVars, readdata5,
                   rpVars, archive, requests, failures>>

\* return stat
Main_Return ==
    /\ pc = "main_return"
    /\ Exit(stat)
    /\ UNCHANGED <<stat, i, nskipyr, cfgread, outfilename, filename, deviated, arrayVars,
                   callVars, ioVars, raVars, readdata5, rpVars, ncVars, histVars,
                   failures>>

\* ------------------------------------------------------------ the program
Init ==
    /\ pc = "main"
    /\ exitStatus = 0 - 1
    /\ i = 0
    /\ nskipyr = 0
    /\ stat = 0
    /\ cfgread = 0
    /\ outfilename = ""
    /\ filename = ""
    /\ deviated = FALSE
    /\ data = [x \in 0 .. (NGRIDI - 1) |-> GridOf(0)]
    /\ popdata = TableOf(NRGN, Uninit)
    /\ bdata = [x \in 0 .. (NBASINI - 1) |-> TableOf(NBASIN, 0)]
    /\ rdata = [x \in 0 .. (NRGNI - 1) |-> TableOf(NRGN, 0)]
    /\ fn = ""
    /\ tarray = ""
    /\ target = 0
    /\ nrow = 0
    /\ retpc = ""
    /\ datafile = NoFile
    /\ openData = << >>
    /\ diag = NoDiag
    /\ year = 0
    /\ readdata = BufferOf(NMONTH * NCELL, 0)
    /\ transdata = BufferOf(NCELL, 0)
    /\ readdata5 = BufferOf(NYEAR * NCELL, 0)
    /\ rgn = 0
    /\ iyear = 0
    /\ tmp = 0
    /\ ncstep = 0
    /\ archive = NoArchive
    /\ calls = << >>
    /\ reads = << >>
    /\ writers = [t \in Steps |-> << >>]
    /\ requests = {}
    /\ failures = {}

MainStep ==
    \/ Main_Usage \/ Main_ConfigOpenFail \/ Main_ConfigOpen \/ Main_Globals
    \/ Main_GlobalsFail \/ Main_ReadOutName \/ Main_ReadSupplyName \/ Main_ReadGridName
    \/ Main_ReadPopName \/ Main_ReadBasinName \/ Main_ReadRegionName \/ Main_ReadNameFail
    \/ Main_CallAggregate \/ Main_AfterAggregate \/ Main_Call5yr \/ Main_CallPop
    \/ Main_CallBasin \/ Main_CallRegion \/ Main_ReaderFailed \/ Main_NextGrid
    \/ Main_AfterPop \/ Main_NextBasin \/ Main_NextRegion \/ Main_CallMat2nc
    \/ Main_Return
    \/ Nc_Ok \/ Nc_Fatal \/ Nc_Ignored \/ Nc_Return

Next == MainStep \/ ReaderStep

Spec == Init /\ [][Next]_vars

\* ------------------------------------------------------------ what the claims speak of
\* the running reader has just returned to its caller
Returned(f) == fn = f /\ pc = retpc /\ calls[Len(calls)].ret >= 0
ReturnedOk(f) == Returned(f) /\ stat = 0

\* the file behind a name that stands for one file
FileOf(name) == CHOOSE f \in FS(name) : TRUE

RECURSIVE SumOver(_, _, _, _)
\* the sum of the m values of a file at positions base, base + step, ...
SumOver(seed, base, step, m) ==
    IF m = 0 THEN 0 ELSE BinVal(seed, base) + SumOver(seed, base + step, step, m - 1)

\* the sum of the 12 monthly values of year y for cell (lat, lon)
MonthSum(seed, y, lat, lon) ==
    SumOver(seed, (y - 2001) * 12 * NCELL + NLAT * lon + lat, NCELL, 12)

KeptYears == {2010 + 5 * t : t \in Steps}

\* C1: once a reader has returned a failure, mat2nc is never called and no
\* archive is created (as the claim states it)
C1_FailFast ==
    (\E k \in DOMAIN calls : calls[k].f # "mat2nc" /\ calls[k].ret > 0)
        => /\ \A k \in DOMAIN calls : calls[k].f # "mat2nc"
           /\ archive.state = "none"

\* C2: the process ends with status zero exactly when no failure occurred (as
\* the claim states it)
C2_ZeroIffNoFailure ==
    pc = "exit" => ((exitStatus = 0) <=> (failures = {}))

\* C3 as stated: the stored value is the mean of the 12 monthly values (their
\* sum divided by 12) multiplied by 0.00263
C3_MeanTimesFactor ==
    (ReturnedOk("read_and_aggregate_data") /\ filename # NoDataName)
        => \A y \in KeptYears, lat \in Lats, lon \in Lons :
              data[target][(y - 2010) \div 5][lat][lon]
                  = FMul(MonthSum(FileOf(filename).seed, y, lat, lon) \div 12, 263)

\* C3 as amended: the stored value is the sum of the 12 monthly values
\* multiplied by 0.00263 (the mean multiplied by 0.03156)
C3_SumTimesFactor ==
    (ReturnedOk("read_and_aggregate_data") /\ filename # NoDataName)
        => \A y \in KeptYears, lat \in Lats, lon \in Lons :
              data[target][(y - 2010) \div 5][lat][lon]
                  = FMul(MonthSum(FileOf(filename).seed, y, lat, lon), 263)

C3_Witness ==
    /\ ReturnedOk("read_and_aggregate_data")
    /\ filename = "monthly.dat"
    /\ data[target][NYEAR - 1][NLAT - 1][NLON - 1] > 0

\* C4: one 12-month block is consumed per year 2001..2095, in order; time-step
\* t is written once, by year 2010+5t, from block 9+5t at offset NLAT*lon+lat
C4_BlocksAndSteps ==
    (ReturnedOk("read_and_aggregate_data") /\ filename # NoDataName)
        => /\ Len(reads) = 95
           /\ \A k \in DOMAIN reads : reads[k] = <<2000 + k, (k - 1) * 12 * NCELL>>
           /\ \A t \in Steps : writers[t] = <<2010 + 5 * t>>
           /\ \A t \in Steps, lat \in Lats, lon \in Lons :
                 data[target][t][lat][lon]
                     = FMul(SumOver(FileOf(filename).seed,
                                    (9 + 5 * t) * 12 * NCELL + NLAT * lon + lat,
                                    NCELL, 12), 263)

C4_Witness ==
    /\ ReturnedOk("read_and_aggregate_data")
    /\ filename = "monthly_alt.dat"
    /\ Len(reads) = 95
    /\ writers[NYEAR - 1] = <<2095>>

\* C5: with at least k+18 records the first k are dropped and record k+i is
\* stored unchanged in time-step i, cell [lat][lon] from offset NLAT*lon+lat;
\* with fewer than k+18 complete records the result is a failure
C5_SkipAndTranspose ==
    (Returned("read_5yr_data") /\ datafile # NoFile)
        => IF datafile.len >= (nskipyr + 18) * NCELL
           THEN /\ stat = 0
                /\ datafile.pos = (nskipyr + 18) * NCELL
                /\ \A t \in Steps, lat \in Lats, lon \in Lons :
                      data[target][t][lat][lon]
                          = BinVal(datafile.seed, (nskipyr + t) * NCELL + NLAT * lon + lat)
           ELSE stat # 0

C5_Witness ==
    /\ ReturnedOk("read_5yr_data")
    /\ filename = "grid5_19.dat"
    /\ nskipyr = 1
    /\ data[target][NYEAR - 1][NLAT - 1][NLON - 1] > 0

\* C6: with at least 19*n values the first n are dropped and the next 18*n
\* copied, table[t][e] being value n + t*n + e; with fewer the result is a
\* failure
C6_TableVerbatim ==
    (Returned("read_table_data") /\ datafile # NoFile)
        => IF datafile.len >= 19 * nrow
           THEN /\ stat = 0
                /\ \A t \in Steps, e \in 0 .. (nrow - 1) :
                      (IF tarray = "bdata" THEN bdata ELSE rdata)[target][t][e]
                          = BinVal(datafile.seed, nrow + t * nrow + e)
           ELSE stat # 0

C6_Witness ==
    /\ ReturnedOk("read_table_data")
    /\ filename = "basin_alt.dat"
    /\ nrow = NBASIN
    /\ bdata[target][NYEAR - 1][NBASIN - 1] > 0

\* the lines and fields of a text
\* the position after the newline that ends the line starting at p (or past
\* the end of the text)
LineEnd(T, p) ==
    LET nls == {x \in (p + 1) .. Len(T) : T[x].t = "nl"}
    IN  IF nls = {} THEN Len(T) + 1 ELSE CHOOSE x \in nls : \A z \in nls : x <= z

RECURSIVE LineStart(_, _)
\* the position at which line r starts
LineStart(T, r) == IF r = 0 THEN 0 ELSE LineEnd(T, LineStart(T, r - 1))

\* the items of line r without its newline (none when the text has no line r)
LineItems(T, r) ==
    LET a == LineStart(T, r)
        b == LineEnd(T, a)
    IN  IF a >= Len(T) THEN << >>
        ELSE SubSeq(T, a + 1, IF b > Len(T) THEN Len(T) ELSE b - 1)

RECURSIVE FieldItems(_, _)
\* the items of the k-th comma-separated field of a line, blanks dropped;
\* <<Junk>> when the line has no k-th field
FieldItems(line, k) ==
    LET commas == {x \in DOMAIN line : line[x].t = "comma"}
        first  == IF commas = {} THEN Len(line) + 1
                  ELSE CHOOSE x \in commas : \A z \in commas : x <= z
    IN  IF k = 1
        THEN SelectSeq(SubSeq(line, 1, first - 1), LAMBDA x : x.t # "sp")
        ELSE IF commas = {} THEN <<Junk>>
        ELSE FieldItems(SubSeq(line, first + 1, Len(line)), k - 1)

\* field k of line r is a number
FieldOk(T, r, k) ==
    LET f == FieldItems(LineItems(T, r), k) IN Len(f) = 1 /\ f[1].t = "num"
FieldValue(T, r, k) == FieldItems(LineItems(T, r), k)[1].v

Regions == 0 .. (NRGN - 1)
Before(r1, j1, r2, j2) == r1 < r2 \/ (r1 = r2 /\ j1 < j2)

\* C7: line by line, year field j of region r (field j+3 of line r) is stored
\* rounded at table[j][r]; the first field that is missing or no number makes
\* the reader fail, reporting exactly that region and year (as the claim
\* states it)
C7_FieldOrFailure ==
    (Returned("read_pop_data") /\ diag.kind # "open" /\ filename # NoDataName)
        => LET T   == Text(FileOf(filename).kind)
               bad == {x \in Regions \X Steps : ~FieldOk(T, x[1], x[2] + 3)}
           IN  /\ (stat = 0) <=> (bad = {})
               /\ \A x \in bad :
                     (\A z \in bad : z = x \/ Before(x[1], x[2], z[1], z[2]))
                         => diag.kind = "parse" /\ diag.a = x[1] /\ diag.b = x[2]
               /\ \A x \in Regions \X Steps :
                     (\A z \in bad : Before(x[1], x[2], z[1], z[2]))
                         => popdata[x[2]][x[1]] = Round(FieldValue(T, x[1], x[2] + 3))

\* C8: the sentinel name makes either grid reader fill the whole grid with
\* the not-a-number marker and return 0, no file opened, nothing read
C8_SentinelFillsNaN ==
    ((Returned("read_and_aggregate_data") \/ Returned("read_5yr_data"))
        /\ filename = "no-data")
        => /\ stat = 0
           /\ \A t \in Steps, lat \in Lats, lon \in Lons : data[target][t][lat][lon] = NAN
           /\ openData = << >>
           /\ requests = {}

C8_Witness ==
    /\ ReturnedOk("read_5yr_data")
    /\ filename = "no-data"
    /\ nskipyr = 1
    /\ data[target][NYEAR - 1][NLAT - 1][NLON - 1] = NAN

\* C9: for every one of the 25 input tokens the sentinel makes the reader
\* return success without opening a file (as the claim states it)
C9_SentinelEveryReader ==
    /\ \A k \in DOMAIN calls :
          (calls[k].f # "mat2nc" /\ calls[k].name = "no-data" /\ calls[k].ret >= 0)
              => calls[k].ret = 0
    /\ (filename = "no-data" /\ fn # "" /\ calls[Len(calls)].ret < 0)
          => datafile.name # "no-data"

\* C10: after a failed archive-library call mat2nc never returns success and
\* the process ends with a non-zero status (as the claim states it)
C10_ArchiveFailureFatal ==
    ("archive" \in failures)
        => /\ ~(calls[Len(calls)].f = "mat2nc" /\ calls[Len(calls)].ret = 0)
           /\ (pc = "exit" => exitStatus # 0)

\* ------------------------------------------------------------ the archive, as written
\* the archive-library call made at a source line
CallAt(line) == CHOOSE c \in {NcCalls[k] : k \in DOMAIN NcCalls} : c.line = line

\* the calls that have succeeded on the archive, in order
ArchiveOps == [k \in DOMAIN archive.ops |-> CallAt(archive.ops[k])]

IsDefinition(c) == c.op \in {"def_dim", "def_var", "put_att_float", "put_att_text"}
IsWrite(c) == c.op \in {"put_vara", "put_var_int", "put_var_float"}

\* create, definitions, enddef, writes, close
Phase(c) ==
    CASE c.op = "create" -> 0
      [] IsDefinition(c) -> 1
      [] c.op = "enddef" -> 2
      [] IsWrite(c)      -> 3
      [] OTHER           -> 4

\* mat2nc has returned 0 to main
Mat2ncReturnedOk ==
    /\ calls # << >>
    /\ calls[Len(calls)].f = "mat2nc"
    /\ calls[Len(calls)].ret = 0

\* C11: the archive is created once (clobbering), then defined, then define mode is left
\* once, then the data are written, then it is closed once; no definition
\* follows enddef, no write precedes it, and when mat2nc returns 0 every
\* variable defined has been written exactly once
C11_CreateDefineWriteClose ==
    LET ops        == ArchiveOps
        count(o)   == Cardinality({k \in DOMAIN ops : ops[k].op = o})
        written(v) == Cardinality({k \in DOMAIN ops : IsWrite(ops[k]) /\ ops[k].name = v})
        defined    == {ops[k].name : k \in {x \in DOMAIN ops : ops[x].op = "def_var"}}
    IN  /\ \A k \in DOMAIN ops : k > 1 => Phase(ops[k - 1]) <= Phase(ops[k])
        /\ count("create") <= 1 /\ count("enddef") <= 1 /\ count("close") <= 1
        /\ \A k \in DOMAIN ops : IsWrite(ops[k]) => written(ops[k].name) = 1
        /\ \A k \in DOMAIN ops : IsWrite(ops[k]) => ops[k].name \in defined
        /\ Mat2ncReturnedOk
              => /\ ops[1].op = "create" /\ ops[1].type = "NC_CLOBBER"
                 /\ ops[Len(ops)].op = "close"
                 /\ count("enddef") = 1
                 /\ defined # {}
                 /\ \A v \in defined : written(v) = 1

C11_Witness ==
    /\ Mat2ncReturnedOk
    /\ archive.state = "closed"
    /\ Len(archive.ops) = NNC

\* ------------------------------------------------------------ the order of the readers
\* the reader of input file number k
ReaderOf(k) ==
    CASE k = G_SUPPLY               -> "read_and_aggregate_data"
      [] k >= G_IRR /\ k <= G_WSI   -> "read_5yr_data"
      [] k = POP                    -> "read_pop_data"
      [] OTHER                      -> "read_table_data"

NINPUT == R_WSI

\* C12: the k-th call of main is the reader of input file k, for k = 1..25 in
\* the order monthly grid, seven five-year grids, population, eight basin
\* tables, eight region tables; a call has returned before the next one is made
\* and before the next token is read; mat2nc is called once, as the 26th call
C12_ReadersInOrder ==
    /\ \A k \in DOMAIN calls :
          /\ k <= NINPUT => calls[k].f = ReaderOf(k) /\ calls[k].i = k
          /\ k > NINPUT => k = NINPUT + 1 /\ calls[k].f = "mat2nc"
          /\ k < Len(calls) => calls[k].ret >= 0
    /\ pc \in {"rfn_supply", "rfn_grid", "rfn_pop", "rfn_basin", "rfn_region"}
          => /\ \A k \in DOMAIN calls : calls[k].ret >= 0
             /\ cfgread = 4 + Len(calls)
    /\ pc \in {"nc", "main_return"} => Len(calls) = NINPUT + 1

C12_Witness ==
    /\ pc = "nc"
    /\ Len(calls) = NINPUT + 1
    /\ calls[NINPUT].f = "read_table_data" /\ calls[NINPUT].i = R_WSI
    /\ \A k \in 2 .. NINPUT : calls[k].ret = 0

\* ------------------------------------------------------------ from token to variable
\* the names of the variables defined over the given dimensions with the given
\* type, in the order of their definition
VarsOver(dims, type) ==
    LET at == SelectSeq([k \in DOMAIN NcCalls |-> k],
                        LAMBDA k : /\ NcCalls[k].op = "def_var"
                                   /\ NcCalls[k].dims = dims
                                   /\ NcCalls[k].type = type)
    IN  [j \in DOMAIN at |-> NcCalls[at[j]].name]

GridVars ==
    <<"supply", "irrigation_demand", "livestock_demand", "electricity_demand",
      "mfg_demand", "total_demand", "domestic_demand", "scarcity">>
BasinVars == VarsOver(<<"time", "basin">>, "NC_FLOAT")
RegionVars == VarsOver(<<"time", "rgn">>, "NC_FLOAT")

\* the archive variable of the quantity of input file number k
VarOfToken(k) ==
    CASE k <= G_WSI -> GridVars[k]
      [] k = POP    -> "population"
      [] k <= B_WSI -> BasinVars[k - POP]
      [] OTHER      -> RegionVars[k - B_WSI]

\* the data write of a variable, and the array of main it writes
WriteOf(v) == CHOOSE c \in {NcCalls[k] : k \in DOMAIN NcCalls} : IsWrite(c) /\ c.name = v
ArrayAt(w) ==
    CASE w.arr = "data"    -> data[w.idx]
      [] w.arr = "popdata" -> popdata
      [] w.arr = "bdata"   -> bdata[w.idx]
      [] OTHER             -> rdata[w.idx]

\* what a complete reading of nominal input file k leaves in its array
ContentOf(k) ==
    LET g == NominalFile(k).seed
    IN  CASE k = G_SUPPLY ->
               [t \in Steps |-> [la \in Lats |-> [lo \in Lons |->
                   FMul(MonthSum(g, 2010 + 5 * t, la, lo), 263)]]]
          [] k <= G_WSI ->
               [t \in Steps |-> [la \in Lats |-> [lo \in Lons |->
                   BinVal(g, ((IF k = G_WSI THEN 1 ELSE 2) + t) * NCELL + NLAT * lo + la)]]]
          [] k = POP ->
               [t \in Steps |-> [r \in Regions |-> Round(FieldValue(Text("good"), r, t + 3))]]
          [] k <= B_WSI ->
               [t \in Steps |-> [e \in 0 .. (NBASIN - 1) |-> BinVal(g, NBASIN + t * NBASIN + e)]]
          [] OTHER ->
               [t \in Steps |-> [e \in 0 .. (NRGN - 1) |-> BinVal(g, NRGN + t * NRGN + e)]]

ReaderRunning ==
    /\ calls # << >>
    /\ calls[Len(calls)].f # "mat2nc"
    /\ calls[Len(calls)].ret < 0

Quantities ==
    {"supply", "irrigation_demand", "livestock_demand", "electricity_demand",
     "manufacturing_demand", "total_demand", "domestic_demand", "water_scarcity"}

\* the definitions of variables the archive holds
DefinedVars == {ArchiveOps[k] : k \in {x \in DOMAIN ArchiveOps : ArchiveOps[x].op = "def_var"}}

\* C14: for each of the eight quantities q, the archive holds a basin variable
\* basin_<q> and a region variable region_<q>, the latter of type float over
\* time x rgn (as the claim states it)
C14_RegionNamesAsBasin ==
    Mat2ncReturnedOk
        => \A q \in Quantities :
              /\ \E c \in DefinedVars : c.name = "basin_" \o q
              /\ \E c \in DefinedVars :
                    /\ c.name = "region_" \o q
                    /\ c.type = "NC_FLOAT"
                    /\ c.dims = <<"time", "rgn">>

\* ------------------------------------------------------------ dimensions and variables
\* the dimensions the archive holds, each with its length
DefinedDims ==
    {<<ArchiveOps[k].name, DimLen(ArchiveOps[k].name)>> :
        k \in {x \in DOMAIN ArchiveOps : ArchiveOps[x].op = "def_dim"}}

TheFiveDims ==
    {<<"lat", NLAT>>, <<"lon", NLON>>, <<"time", NYEAR>>, <<"rgn", NRGN>>, <<"basin", NBASIN>>}

\* the archive holds nd definitions of dimensions, which are the five of the
\* specification, and nv definitions of variables, all of different names and
\* each over dimensions of the archive only
DimsAndVars(nd, nv) ==
    /\ Cardinality({k \in DOMAIN ArchiveOps : ArchiveOps[k].op = "def_dim"}) = nd
    /\ DefinedDims = TheFiveDims
    /\ Cardinality({k \in DOMAIN ArchiveOps : ArchiveOps[k].op = "def_var"}) = nv
    /\ Cardinality({c.name : c \in DefinedVars}) = nv
    /\ \A c \in DefinedVars :
          /\ c.dims # << >>
          /\ \A j \in DOMAIN c.dims : \E d \in DefinedDims : d[1] = c.dims[j]

\* C15 as stated: a successful mat2nc call defines the five dimensions lat,
\* lon, time, rgn, basin with their lengths and exactly 26 variables, each
\* bound to those dimensions only
C15_FiveDimsTwentySixVars == Mat2ncReturnedOk => DimsAndVars(5, 26)

\* C15 as amended: the five dimensions and exactly 30 variables (the five
\* coordinate variables and 25 data variables), each bound to those dimensions
\* only
C15_FiveDimsThirtyVars == Mat2ncReturnedOk => DimsAndVars(5, 30)

C15_Witness ==
    /\ Mat2ncReturnedOk
    /\ Cardinality(DefinedVars) = 30
    /\ <<"basin", NBASIN>> \in DefinedDims

\* ------------------------------------------------------------ the configuration stream
\* main has read all it reads from the configuration
ConfigDone == pc \in {"call_mat2nc", "nc", "main_return"} \/ (pc = "exit" /\ Mat2ncReturnedOk)

\* a read of the configuration has failed
ConfigFailed == pc = "exit" /\ exitStatus = 3 /\ "config" \in failures

\* the run consumes three scalars and then ntok path tokens, no more; a read
\* of the configuration fails only on a stream that holds fewer items
ConsumesTokens(ntok) ==
    /\ pc = "rfn_out" => cfgread = 3
    /\ cfgread <= 3 + ntok
    /\ ConfigDone => cfgread = 3 + ntok
    /\ ConfigFailed => cfgread < 3 + ntok

\* C16 as stated: three scalars, then exactly 25 path tokens with the output
\* path among them, and a stream holding these is enough to reach mat2nc
C16_TwentyFiveTokens == ConsumesTokens(25)

\* C16 as amended: three scalars, then exactly 26 path tokens (the output path
\* and the 25 input paths), and a stream holding these is enough to reach mat2nc
C16_TwentySixTokens == ConsumesTokens(26)

C16_Witness ==
    /\ pc = "nc"
    /\ cfgread = 29
    /\ "config" \notin failures

\* ------------------------------------------------------------ the scratch buffers
\* the grid a grid reader f leaves for the file called name and skip-year
\* count k: a function of these alone
GridResult(f, name, k) ==
    IF name = NoDataName THEN GridOf(NAN)
    ELSE LET g == FileOf(name).seed
         IN  IF f = "read_and_aggregate_data"
             THEN [t \in Steps |-> [la \in Lats |-> [lo \in Lons |->
                      FMul(MonthSum(g, 2010 + 5 * t, la, lo), 263)]]]
             ELSE [t \in Steps |-> [la \in Lats |-> [lo \in Lons |->
                      BinVal(g, (k + t) * NCELL + NLAT * lo + la)]]]

\* what the buffers held when the reader was called (slice 1 of data, which
\* the call does not fill, keeps it)
Leftover == data[1][0][0][0]

\* C17: the grid a successful call of read_and_aggregate_data or read_5yr_data
\* leaves is determined by the file and the skip-year count, whatever readdata
\* and transdata (and the grid itself) held when the reader was called
C17_ScratchIndependent ==
    (ReturnedOk("read_and_aggregate_data") \/ ReturnedOk("read_5yr_data"))
        => data[target] = GridResult(fn, filename, nskipyr)

C17_Witness ==
    /\ ReturnedOk("read_and_aggregate_data")
    /\ filename = "monthly_alt.dat"
    /\ Leftover = 42 * Scale
    /\ readdata[0] # Leftover
    /\ data[target] = GridResult(fn, filename, nskipyr)

\* ------------------------------------------------------------ the remainder of a line
\* every one of the NRGN lines has its two leading fields and 18 year fields
AllFieldsThere(T) == \A r \in Regions, k \in 1 .. NFIELD : FieldOk(T, r, k)

\* C18: whatever follows the 18 year fields of line r, region r+1 is parsed
\* from the start of line r+1, and so every year field stored for a region is
\* a field of that region's line (as the claim states it)
C18_RemainderConsumed ==
    (fn = "read_pop_data" /\ datafile # NoFile /\ filename # NoDataName
        /\ AllFieldsThere(Text(datafile.kind)))
        => LET T == Text(datafile.kind)
           IN  /\ pc = "rp_line" => datafile.pos = LineStart(T, rgn)
               /\ pc \in {"rp_line", "rp_field"}
                     => \A r \in Regions, j \in Steps :
                           Before(r, j, rgn, IF pc = "rp_line" THEN 0 ELSE iyear)
                               => popdata[j][r] = Round(FieldValue(T, r, j + 3))

\* ------------------------------------------------------------ the sizes of the reads
\* C19: no fread asks for more items than its buffer holds: the skip read of
\* read_5yr_data (nskipyr records, nskipyr 1 or 2) fits the 18-record buffer,
\* the throwaway read of read_table_data (nrow values) fits tempdata, the
\* table read fits the table passed; and every index main uses into data,
\* bdata and rdata is one of their slices
C19_ReadsFitBuffers ==
    /\ \A q \in requests : q[2] # "data" => q[3] <= Capacity(q[1], q[2])
    /\ pc \in {"r5_skip", "r5_read"}
          => nskipyr \in {1, 2} /\ nskipyr * NCELL <= Capacity(fn, "readdata")
    /\ pc \in {"rt_skip", "rt_read"}
          => nrow <= Capacity(fn, "tempdata") /\ NYEAR * nrow <= Capacity(fn, "data")
    /\ ReaderRunning => target \in 0 .. (Slices(tarray) - 1)

C19_Witness ==
    /\ pc = "nc"
    /\ {<<"read_5yr_data", "readdata", 2 * NCELL>>, <<"read_5yr_data", "readdata", NCELL>>,
        <<"read_table_data", "tempdata", NBASIN>>, <<"read_table_data", "tempdata", NRGN>>}
          \subseteq requests
    /\ target = NRGNI - 1

\* ------------------------------------------------------------ the open files
\* C20: a reader has closed the file it opened when it returns, so at most one
\* data file is open at any time and none is open while mat2nc runs (as the
\* claim states it)
C20_FilesClosed ==
    /\ Len(openData) <= 1
    /\ (calls # << >> /\ calls[Len(calls)].ret >= 0) => openData = << >>
    /\ pc = "nc" => openData = << >>

====
